---- MODULE Spec2Model ----
(***************************************************************************)
(* Verification model of the BitBox host-side signing path:                *)
(*   - the USB transport framer (devices/usb/communication.go),            *)
(*   - the channel lock around a round trip (same file),                   *)
(*   - the device session (devices/bitbox/device.go),                      *)
(*   - the address chain (package addresses),                              *)
(*   - transaction signing (coins/btc/sign.go),                            *)
(*   - the construction of a device (NewDevice, devices/bitbox/device.go), *)
(*   - the reading of incoming packets (readFrame) and the mapping of a    *)
(*     reply by SendPlain and SendEncrypt (devices/usb/communication.go).  *)
(*   - the construction of an address chain (NewAddressChain),             *)
(*   - the requests an operation sends and how it treats their errors      *)
(*     (Device.send and its callers),                                      *)
(*   - the packets of sendFrame for messages of any length,                *)
(*   - operations of one Device called from several goroutines.            *)
(* Each component has its own specification (SpecFrame, SpecChain, ...),   *)
(* all over the same variables; the variables of the components a          *)
(* specification does not exercise stay at their idle values.              *)
(***************************************************************************)
EXTENDS Integers, Sequences, FiniteSets, TLC

VARIABLES
    \* ---- transport framer
    msg,            \* the message handed to sendFrame (sequence of bytes)
    transport,      \* packets written and not yet read (loopback device)
    framePc,        \* "idle" | "sent" | "read"
    sendErr,        \* error returned by sendFrame ("nil" when none)
    readRet,        \* what readFrame returned: [err, data]
    \* ---- address chain
    gapLimit, chainIndex, addresses, chainLastOp, getUnusedRet, ensureRet,
    \* ---- Device.Sign
    signatureHashes, keyPaths, signPc, signI, signLog, signReplies,
    signatures, signRet,
    \* ---- Device.XPub
    xpubPath, xpubPassword, xpubPc, xpubLog, xpub1, xpubRet,
    \* ---- channel lock (concurrent round trips)
    mutex, thrPc, thrCall, thrLeft, wire,
    \* ---- device session
    bootloaderMode, bootloaderStatus, initialized, password, seeded, devLastOp,
    closed,         \* Device.closed
    handleCloses,   \* how often Close was called on the transport handle
    \* ---- SignTransaction
    txIn,           \* the inputs: [outpoint, script] (script and witness)
    txOut,          \* the outputs, by what the canonical order compares
    previousOutputs,\* outpoint -> spent output, for the outpoints it knows
    txPc,           \* "idle" | "hash" | "sign" | "assemble" | "validate" | "returned"
    txI,            \* index of the running loop
    txHashes, txKeyPaths, txSigs, txLog, txRet,
    \* ---- NewDevice
    ndBootloader,   \* the bootloader argument
    ndVersion,      \* the version argument, <<major, minor, patch>>
    ndBootloaderVersions, \* the supported bootloader versions [lowest, lowestNon]
    ndPc,           \* "idle" | "start" | "probe" | "finish" | "returned"
    ndPings,        \* the outcomes of the pings sent so far
    ndInitialized,  \* the local variable initialized
    ndRet,          \* [device, err]
    \* ---- readFrame on incoming packets
    incoming,       \* what the device's reads return, in order
    rdPc,           \* "idle" | "pending" | "read"
    rdRet,          \* what readFrame returned: [err, data]
    rdRest,         \* the packets readFrame left unread
    \* ---- SendPlain / SendEncrypt on a device's answer
    rpOp,           \* "none" | "SendPlain" | "SendEncrypt"
    rpMsgOk,        \* whether the command can be logged (is JSON)
    rpEncryptOk,    \* whether aes.Encrypt succeeds
    rpPassword,     \* the password argument of SendEncrypt
    rpWire,         \* what the transport yields for the round trip
    rpPc,           \* "idle" | "pending" | "returned"
    rpRoundTrips,   \* the number of round trips made
    rpRet,          \* what the call returned
    \* ---- NewAddressChain
    nacXpub,        \* the xpub argument: [private, net, path]
    nacNet,         \* the net argument
    nacGapLimit,    \* the gapLimit argument
    nacChainIndex,  \* the chainIndex argument
    nacPc,          \* "idle" | "pending" | "constructed" | "ensured"
    nacRet,         \* what the call yielded: [panic, chain]
    \* ---- the requests of a session operation
    soOp,           \* the operation called
    soBootlock,     \* Login: whether the device info says the bootloader is locked
    soBatches,      \* Sign: the number of batches
    soPc,           \* "idle" | "running" | "returned"
    soK,            \* the request of the operation that is sent next
    soSent,         \* the requests sent: [req, k, outcome]
    soErr,          \* the error the operation returned
    \* ---- sendFrame, packet by packet
    pkLen,          \* len(msg)
    pkRemaining,    \* readBuffer.Len()
    pkSeq,          \* the loop variable seq
    pkPc,           \* "idle" | "start" | "loop" | "returned"
    pkWire,         \* the packets written: [header, payload, filler]
    pkErr,          \* the error sendFrame returned
    \* ---- concurrent operations on one session
    ocMutex,        \* the holder of communication.mutex (0: free)
    ocPc,           \* per thread: "idle" | "lock" | "trip" | "unlock" | "done"
    ocOp,           \* per thread: the operation it called
    ocK,            \* per thread: the request of the operation sent next
    ocErr,          \* per thread: the error of the operation so far
    ocWire          \* the round trips on the transport: [thr, k, req]

frameVars == <<msg, transport, framePc, sendErr, readRet>>
chainVars == <<gapLimit, chainIndex, addresses, chainLastOp, getUnusedRet, ensureRet>>
signVars  == <<signatureHashes, keyPaths, signPc, signI, signLog, signReplies,
               signatures, signRet>>
xpubVars  == <<xpubPath, xpubPassword, xpubPc, xpubLog, xpub1, xpubRet>>
commVars  == <<mutex, thrPc, thrCall, thrLeft, wire>>
devVars   == <<bootloaderMode, bootloaderStatus, initialized, password, seeded,
               devLastOp, closed, handleCloses>>
txVars    == <<txIn, txOut, previousOutputs, txPc, txI, txHashes, txKeyPaths,
               txSigs, txLog, txRet>>
ndVars    == <<ndBootloader, ndVersion, ndBootloaderVersions, ndPc, ndPings,
               ndInitialized, ndRet>>
rdVars    == <<incoming, rdPc, rdRet, rdRest>>
rpVars    == <<rpOp, rpMsgOk, rpEncryptOk, rpPassword, rpWire, rpPc, rpRoundTrips,
               rpRet>>
nacVars   == <<nacXpub, nacNet, nacGapLimit, nacChainIndex, nacPc, nacRet>>
soVars    == <<soOp, soBootlock, soBatches, soPc, soK, soSent, soErr>>
pkVars    == <<pkLen, pkRemaining, pkSeq, pkPc, pkWire, pkErr>>
ocVars    == <<ocMutex, ocPc, ocOp, ocK, ocErr, ocWire>>
vars == <<frameVars, chainVars, signVars, xpubVars, commVars, devVars, txVars,
          ndVars, rdVars, rpVars,
                        nacVars,
                        soVars,
                        pkVars,
                        ocVars>>

Min(a, b) == IF a < b THEN a ELSE b

\* An action of one component leaves the other components alone.
FrameOnly == UNCHANGED <<chainVars, signVars, xpubVars, commVars, devVars, txVars,
                        ndVars, rdVars, rpVars,
                        nacVars,
                        soVars,
                        pkVars,
                        ocVars>>
ChainOnly == UNCHANGED <<frameVars, signVars, xpubVars, commVars, devVars, txVars,
                        ndVars, rdVars, rpVars,
                        nacVars,
                        soVars,
                        pkVars,
                        ocVars>>
SignOnly  == UNCHANGED <<frameVars, chainVars, xpubVars, commVars, devVars, txVars,
                        ndVars, rdVars, rpVars,
                        nacVars,
                        soVars,
                        pkVars,
                        ocVars>>
XPubOnly  == UNCHANGED <<frameVars, chainVars, signVars, commVars, devVars, txVars,
                        ndVars, rdVars, rpVars,
                        nacVars,
                        soVars,
                        pkVars,
                        ocVars>>
CommOnly  == UNCHANGED <<frameVars, chainVars, signVars, xpubVars, devVars, txVars,
                        ndVars, rdVars, rpVars,
                        nacVars,
                        soVars,
                        pkVars,
                        ocVars>>
DevOnly   == UNCHANGED <<frameVars, chainVars, signVars, xpubVars, commVars, txVars,
                        ndVars, rdVars, rpVars,
                        nacVars,
                        soVars,
                        pkVars,
                        ocVars>>
TxOnly    == UNCHANGED <<frameVars, chainVars, signVars, xpubVars, commVars, devVars,
                        ndVars, rdVars, rpVars,
                        nacVars,
                        soVars,
                        pkVars,
                        ocVars>>

(***************************************************************************)
(* Transport framer                                                        *)
(***************************************************************************)

\* communication.go: const block
usbReportSize == 64
\* hwwCMD = u2fHIDTypeInit | 0x40 | 0x01 = 0x80 | 0x40 | 0x01
hwwCMD == 193
\* the four bytes of uint32(hwwCID) = 0xff000000, big endian
hwwCID == <<255, 0, 0, 0>>
\* the byte sendFrame pads a packet with (0xee)
fillerByte == 238

\* Largest message length tried; 57 bytes fit the init packet, each
\* continuation packet carries 59, so 120 needs three packets.
MaxMsgLen == 120
\* First bytes of the message patterns tried.
MsgSeeds == {1, 200}

\* A message of the given length: bytes seed, seed+1, ... (mod 256).
MsgOf(len, seed) == [i \in 1..len |-> (seed + i - 1) % 256]

Filler(n) == [i \in 1..n |-> fillerByte]

\* The closure `send` of sendFrame: header, then as much of the buffer as
\* fits the report, then 0xee up to the report size.
send(header, readFrom) ==
    LET take == Min(usbReportSize - Len(header), Len(readFrom))
        buf  == header \o SubSeq(readFrom, 1, take)
    IN  buf \o Filler(usbReportSize - Len(buf))

\* What readFrom.Next(n) leaves in the buffer after `send`.
afterSend(header, readFrom) ==
    LET take == Min(usbReportSize - Len(header), Len(readFrom))
    IN  SubSeq(readFrom, take + 1, Len(readFrom))

initHeader(dataLen) ==
    hwwCID \o <<hwwCMD, ((dataLen % 65536) \div 256) % 256, (dataLen % 65536) % 256>>

contHeader(seq) == hwwCID \o <<seq % 256>>

\* The continuation loop of sendFrame: for seq := 0; readBuffer.Len() > 0; seq++
RECURSIVE contFrames(_, _)
contFrames(readBuffer, seq) ==
    IF Len(readBuffer) = 0 THEN <<>>
    ELSE <<send(contHeader(seq), readBuffer)>>
         \o contFrames(afterSend(contHeader(seq), readBuffer), seq + 1)

\* The packets sendFrame writes when no write fails, in order.
sendFrame(m) ==
    IF Len(m) = 0 THEN <<>>
    ELSE <<send(initHeader(Len(m)), m)>>
         \o contFrames(afterSend(initHeader(Len(m)), m), 0)

\* The loop of readFrame: continuation packets are read while idx < dataLen,
\* each appended from byte 5 to its end.
RECURSIVE readCont(_, _, _, _)
readCont(queue, data, idx, dataLen) ==
    IF ~(idx < dataLen) THEN [err |-> "nil", data |-> data, rest |-> queue]
    ELSE IF queue = <<>>
         THEN [err |-> "read error", data |-> <<>>, rest |-> queue]
    ELSE LET read == Head(queue)
             readLen == Len(read)
         IN  IF readLen < 5
             THEN [err |-> "expected minimum read length of 7", data |-> <<>>,
                   rest |-> Tail(queue)]
             ELSE readCont(Tail(queue), data \o SubSeq(read, 6, readLen),
                           idx + readLen - 5, dataLen)

\* A variant of readFrame that compares the first byte of the channel
\* identifier only.
readFrameFirstIdByte(queue) ==
    IF queue = <<>> THEN [err |-> "read error", data |-> <<>>, rest |-> queue]
    ELSE LET read == Head(queue)
             readLen == Len(read)
         IN  IF readLen < 7
             THEN [err |-> "expected minimum read length of 7", data |-> <<>>,
                   rest |-> Tail(queue)]
             ELSE IF read[1] # 255
             THEN [err |-> "USB command ID mismatch", data |-> <<>>,
                   rest |-> Tail(queue)]
             ELSE IF read[5] # hwwCMD
             THEN [err |-> "USB command frame mismatch", data |-> <<>>,
                   rest |-> Tail(queue)]
             ELSE readCont(Tail(queue), SubSeq(read, 8, readLen),
                           usbReportSize - 7, read[6] * 256 + read[7])

\* readFrame on a device whose pending packets are `queue`; a read from a
\* device with nothing pending fails (the loopback is at end of file).
readFrame(queue) ==
    IF queue = <<>> THEN [err |-> "read error", data |-> <<>>, rest |-> queue]
    ELSE LET read == Head(queue)
             readLen == Len(read)
         IN  IF readLen < 7
             THEN [err |-> "expected minimum read length of 7", data |-> <<>>,
                   rest |-> Tail(queue)]
             ELSE IF read[1] # 255 \/ read[2] # 0 \/ read[3] # 0 \/ read[4] # 0
             THEN [err |-> "USB command ID mismatch", data |-> <<>>,
                   rest |-> Tail(queue)]
             ELSE IF read[5] # hwwCMD
             THEN [err |-> "USB command frame mismatch", data |-> <<>>,
                   rest |-> Tail(queue)]
             ELSE readCont(Tail(queue), SubSeq(read, 8, readLen),
                           usbReportSize - 7, read[6] * 256 + read[7])

FrameIdle ==
    /\ msg = <<>>
    /\ transport = <<>>
    /\ framePc = "idle"
    /\ sendErr = "nil"
    /\ readRet = [err |-> "nil", data |-> <<>>]

\* The message handed to sendFrame.
InitFrame ==
    /\ \E len \in 0..MaxMsgLen, seed \in MsgSeeds : msg = MsgOf(len, seed)
    /\ transport = <<>>
    /\ framePc = "idle"
    /\ sendErr = "nil"
    /\ readRet = [err |-> "nil", data |-> <<>>]

\* Communication.sendFrame: every packet is written in order; a failing
\* device.Write ends the call with the packets before it written.
SendFrame ==
    /\ framePc = "idle"
    /\ \E failAt \in 0..Len(sendFrame(msg)) :
          /\ transport' = transport \o
                 (IF failAt = 0 THEN sendFrame(msg)
                  ELSE SubSeq(sendFrame(msg), 1, failAt - 1))
          /\ sendErr' = IF failAt = 0 THEN "nil" ELSE "Failed to send message"
    /\ framePc' = "sent"
    /\ UNCHANGED <<msg, readRet>>
    /\ FrameOnly

\* Communication.readFrame on the packets pending on the device.
ReadFrame ==
    /\ framePc = "sent"
    /\ readRet' = [err |-> readFrame(transport).err,
                   data |-> readFrame(transport).data]
    /\ transport' = readFrame(transport).rest
    /\ framePc' = "read"
    /\ UNCHANGED <<msg, sendErr>>
    /\ FrameOnly

(***************************************************************************)
(* Address chain                                                           *)
(***************************************************************************)

\* Largest gap limit tried.
MaxGapLimit == 3
\* Longest chain derived: EnsureAddresses is not taken past it.
MaxChainLen == 6
\* Chain indices tried (receive and change chain).
ChainIndices == {0, 1}

NoAddress == [panic |-> FALSE, index |-> -1]

\* NewAddress as addAddress calls it: the address of child `index`, with key
\* path "<chainIndex>/<index>", not used yet.
NewAddress(cIndex, index) ==
    [index |-> index, keyPath |-> <<cIndex, index>>, used |-> FALSE]

\* A variant of addAddress that counts the child index from one.
addAddressFromOne(addrs, cIndex) == Append(addrs, NewAddress(cIndex, Len(addrs) + 1))

\* addAddress: index := len(addresses); append the address derived from it.
addAddress(addrs, cIndex) == Append(addrs, NewAddress(cIndex, Len(addrs)))

\* unusedTailCount on a chain: walk back from the end to the first used one.
RECURSIVE unusedTailCountOf(_)
unusedTailCountOf(addrs) ==
    IF Len(addrs) = 0 THEN 0
    ELSE IF addrs[Len(addrs)].used THEN 0
    ELSE 1 + unusedTailCountOf(SubSeq(addrs, 1, Len(addrs) - 1))

\* The number of unused addresses of the whole chain (not only of its tail).
unusedCountAll == Cardinality({i \in 1..Len(addresses) : ~addresses[i].used})

\* A variant of unusedTailCount that counts the unused addresses at the
\* front of the chain.
unusedFrontCount ==
    IF \A i \in 1..Len(addresses) : ~addresses[i].used THEN Len(addresses)
    ELSE (CHOOSE i \in 1..Len(addresses) :
             /\ addresses[i].used
             /\ \A j \in 1..(i - 1) : ~addresses[j].used) - 1

\* AddressChain.unusedTailCount
unusedTailCount == unusedTailCountOf(addresses)

\* The loop of EnsureAddresses: addAddress, `n` times.
RECURSIVE addAddresses(_, _, _)
addAddresses(addrs, cIndex, n) ==
    IF n <= 0 THEN addrs ELSE addAddresses(addAddress(addrs, cIndex), cIndex, n - 1)

ChainIdle ==
    /\ gapLimit = 0
    /\ chainIndex = 0
    /\ addresses = <<>>
    /\ chainLastOp = "none"
    /\ getUnusedRet = NoAddress
    /\ ensureRet = <<>>

\* NewAddressChain: an empty chain.
InitChain ==
    /\ gapLimit \in 1..MaxGapLimit
    /\ chainIndex \in ChainIndices
    /\ addresses = <<>>
    /\ chainLastOp = "NewAddressChain"
    /\ getUnusedRet = NoAddress
    /\ ensureRet = <<>>

\* A variant of EnsureAddresses that returns the whole chain.
EnsureAddressesReturnsAll ==
    /\ Len(addAddresses(addresses, chainIndex, gapLimit - unusedTailCount)) <= MaxChainLen
    /\ addresses' = addAddresses(addresses, chainIndex, gapLimit - unusedTailCount)
    /\ ensureRet' = addresses'
    /\ chainLastOp' = "EnsureAddresses"
    /\ UNCHANGED <<gapLimit, chainIndex, getUnusedRet>>
    /\ ChainOnly

\* AddressChain.EnsureAddresses: appends gapLimit - unusedTailCount()
\* addresses and returns them.
EnsureAddresses ==
    /\ Len(addAddresses(addresses, chainIndex, gapLimit - unusedTailCount)) <= MaxChainLen
    /\ addresses' = addAddresses(addresses, chainIndex, gapLimit - unusedTailCount)
    /\ ensureRet' = SubSeq(addresses', Len(addresses) + 1, Len(addresses'))
    /\ chainLastOp' = "EnsureAddresses"
    /\ UNCHANGED <<gapLimit, chainIndex, getUnusedRet>>
    /\ ChainOnly

\* An address of the chain is seen in the history: isUsed() turns true.
MarkUsed ==
    /\ \E i \in 1..Len(addresses) :
          /\ ~addresses[i].used
          /\ addresses' = [addresses EXCEPT ![i].used = TRUE]
    /\ chainLastOp' = "MarkUsed"
    /\ UNCHANGED <<gapLimit, chainIndex, getUnusedRet, ensureRet>>
    /\ ChainOnly

\* A variant of GetUnused without the check of the tail (an index outside
\* the chain still panics).
GetUnusedUnchecked ==
    /\ getUnusedRet' =
          IF Len(addresses) < gapLimit
          THEN [panic |-> TRUE, index |-> -1]
          ELSE [panic |-> FALSE,
                index |-> addresses[Len(addresses) - gapLimit + 1].index]
    /\ chainLastOp' = "GetUnused"
    /\ UNCHANGED <<gapLimit, chainIndex, addresses, ensureRet>>
    /\ ChainOnly

\* AddressChain.GetUnused: panics unless the tail holds gapLimit unused
\* addresses, else returns addresses[len - gapLimit].
GetUnused ==
    /\ getUnusedRet' =
          IF unusedTailCount # gapLimit
          THEN [panic |-> TRUE, index |-> -1]
          ELSE [panic |-> FALSE,
                index |-> addresses[Len(addresses) - gapLimit + 1].index]
    /\ chainLastOp' = "GetUnused"
    /\ UNCHANGED <<gapLimit, chainIndex, addresses, ensureRet>>
    /\ ChainOnly

(***************************************************************************)
(* Device.Sign                                                             *)
(*                                                                         *)
(* A signature hash is one byte j and a key path the token <<"m", j>>,     *)
(* so every pair is distinct.  The 'sig' string of a reply entry is kept   *)
(* as its length and the class and magnitude of each 64-character half:    *)
(* "hex" (hex digits only), "minus" ('-' followed by hex digits) or "bad"  *)
(* (anything big.Int.SetString(_, 16) rejects).                            *)
(***************************************************************************)

\* device.go: signatureBatchSize
signatureBatchSize == 15
\* len(hexSig) the code asks for
sigHexLen == 128

\* Most (hash, keyPath) pairs tried: 31 needs three batches.
MaxPairs == 31

\* hex.EncodeToString of a one-byte hash: its two nibbles.
hexEncode(h) == <<h \div 16, h % 16>>

\* The command signBatch builds from its hashes and key paths.
signBatchCmd(hashes, paths) ==
    [sign |-> [data |-> [t \in 1..Len(hashes) |->
                  [hash |-> hexEncode(hashes[t]), keypath |-> paths[t]]]]]

\* A variant that checks the lengths only.
signArgsPanicLengthsOnly(hashes, paths) == Len(hashes) # Len(paths)

\* The two checks Sign starts with; each panics.
signArgsPanic(hashes, paths) ==
    \/ Len(hashes) # Len(paths)
    \/ Len(hashes) = 0

\* A variant with batches one pair short.
batchUpperShort(i, n) == Min(i + signatureBatchSize - 1, n)

\* upper := i + signatureBatchSize, clamped to len(signatureHashes)
batchUpper(i, n) == IF i + signatureBatchSize > n THEN n ELSE i + signatureBatchSize

\* big.NewInt(0).SetString(half, 16): an optional sign, then hex digits.
SetString16(half) ==
    IF half.cls = "hex" THEN [ok |-> TRUE, val |-> half.mag]
    ELSE IF half.cls = "minus" THEN [ok |-> TRUE, val |-> 0 - half.mag]
    ELSE [ok |-> FALSE, val |-> 0]

\* The body of `for _, sig := range sigs`: the error it returns, or "nil".
sigEntryErr(sig) ==
    IF ~sig.isMap THEN "Unexpected reply: 'sign' must be a map"
    ELSE IF ~sig.hasSig THEN "Unexpected reply: field 'sig' is missing in 'sign' map"
    ELSE IF sig.hexSig.len # sigHexLen
         THEN "Unexpected reply: field 'sig' must be 128 byte long"
    ELSE IF ~SetString16(sig.hexSig.r).ok
         THEN "Unexpected reply: R in 'sig' must be a hex value"
    ELSE IF ~SetString16(sig.hexSig.s).ok
         THEN "Unexpected reply: S in 'sig' must be a hex value"
    ELSE "nil"

\* btcec.Signature{R: sigR, S: sigS} of an entry that passed the checks.
sigOf(sig) == [R |-> SetString16(sig.hexSig.r).val, S |-> SetString16(sig.hexSig.s).val]

\* The whole range loop over one reply's 'sign' list: the first error, or the
\* signatures of all entries in order.
RECURSIVE parseSigs(_)
parseSigs(sigs) ==
    IF sigs = <<>> THEN [err |-> "nil", sigs |-> <<>>]
    ELSE IF sigEntryErr(Head(sigs)) # "nil"
         THEN [err |-> sigEntryErr(Head(sigs)), sigs |-> <<>>]
    ELSE LET rest == parseSigs(Tail(sigs))
         IN  IF rest.err # "nil" THEN rest
             ELSE [err |-> "nil", sigs |-> <<sigOf(Head(sigs))>> \o rest.sigs]

\* ---- the device's side of a signing round trip

\* The entry an honest device returns for pair i + t (i the batch offset).
GoodEntry(i, t) ==
    [isMap |-> TRUE, hasSig |-> TRUE,
     hexSig |-> [len |-> sigHexLen,
                 r |-> [cls |-> "hex", mag |-> 2 * (i + t)],
                 s |-> [cls |-> "hex", mag |-> 2 * (i + t) + 1]]]

BadKinds == {"notmap", "nosig", "len", "badR", "badS", "minusR", "minusS"}

\* The same entry, damaged.
BadEntry(kind, i, t) ==
    LET g == GoodEntry(i, t) IN
    CASE kind = "notmap" -> [g EXCEPT !.isMap = FALSE]
      [] kind = "nosig"  -> [g EXCEPT !.hasSig = FALSE]
      [] kind = "len"    -> [g EXCEPT !.hexSig.len = sigHexLen - 1]
      [] kind = "badR"   -> [g EXCEPT !.hexSig.r.cls = "bad"]
      [] kind = "badS"   -> [g EXCEPT !.hexSig.s.cls = "bad"]
      [] kind = "minusR" -> [g EXCEPT !.hexSig.r.cls = "minus"]
      [] kind = "minusS" -> [g EXCEPT !.hexSig.s.cls = "minus"]

\* The replies the device may give to the second send of the batch at
\* offset i with n pairs: no 'sign' list, or a list of n-1, n or n+1 entries
\* of which at most one (the first or the last) is damaged.
SignReplies(i, n) ==
    {[hasSign |-> FALSE, sign |-> <<>>]} \cup
    {[hasSign |-> TRUE,
      sign |-> [t \in 1..c |-> IF t = badPos THEN BadEntry(kind, i, t)
                                ELSE GoodEntry(i, t)]] :
        c \in {n - 1, n, n + 1}, badPos \in {0, 1, n}, kind \in BadKinds}

NoSignRet == [returned |-> FALSE, sigs |-> <<>>, err |-> "nil"]

SignIdle ==
    /\ signatureHashes = <<>>
    /\ keyPaths = <<>>
    /\ signPc = "idle"
    /\ signI = 0
    /\ signLog = <<>>
    /\ signReplies = <<>>
    /\ signatures = <<>>
    /\ signRet = NoSignRet

\* The arguments of a call of Sign.
InitSign ==
    /\ \E nH \in 0..MaxPairs, nP \in 0..MaxPairs :
          /\ nP \in {nH - 1, nH, nH + 1}
          /\ signatureHashes = [j \in 1..nH |-> j]
          /\ keyPaths = [j \in 1..nP |-> <<"m", j>>]
    /\ signPc = "start"
    /\ signI = 0
    /\ signLog = <<>>
    /\ signReplies = <<>>
    /\ signatures = <<>>
    /\ signRet = NoSignRet

\* Sign, up to its loop: the argument checks.
SignCall ==
    /\ signPc = "start"
    /\ signPc' = IF signArgsPanic(signatureHashes, keyPaths) THEN "panic" ELSE "loop"
    /\ UNCHANGED <<signatureHashes, keyPaths, signI, signLog, signReplies,
                   signatures, signRet>>
    /\ SignOnly

\* The batch signBatch is called with in the iteration at offset signI.
CurrentCmd ==
    signBatchCmd(
        SubSeq(signatureHashes, signI + 1, batchUpper(signI, Len(signatureHashes))),
        SubSeq(keyPaths, signI + 1, batchUpper(signI, Len(signatureHashes))))

\* signBatch, first send (the echo); a failing send ends Sign.
SignBatchEcho ==
    /\ signPc = "loop"
    /\ signI < Len(signatureHashes)
    /\ signLog' = Append(signLog, CurrentCmd)
    /\ \E ok \in BOOLEAN :
          IF ok
          THEN /\ signPc' = "echoed"
               /\ signRet' = signRet
          ELSE /\ signPc' = "error"
               /\ signRet' = [returned |-> TRUE, sigs |-> <<>>,
                              err |-> "Failed to sign batch (1)"]
    /\ UNCHANGED <<signatureHashes, keyPaths, signI, signReplies, signatures>>
    /\ SignOnly

\* signBatch, second send, and the rest of the iteration of Sign: the
\* reply's 'sign' list is parsed and appended.
SignBatchSigs ==
    /\ signPc = "echoed"
    /\ signLog' = Append(signLog, CurrentCmd)
    /\ \/ /\ signPc' = "error"
          /\ signRet' = [returned |-> TRUE, sigs |-> <<>>,
                         err |-> "Failed to sign batch (2)"]
          /\ UNCHANGED <<signI, signReplies, signatures>>
       \/ \E reply \in SignReplies(signI,
                 batchUpper(signI, Len(signatureHashes)) - signI) :
             /\ signReplies' = Append(signReplies, reply)
             /\ IF ~reply.hasSign
                THEN /\ signPc' = "error"
                     /\ signRet' = [returned |-> TRUE, sigs |-> <<>>,
                            err |-> "Unexpected reply: field 'sign' is missing"]
                     /\ UNCHANGED <<signI, signatures>>
                ELSE IF parseSigs(reply.sign).err # "nil"
                THEN /\ signPc' = "error"
                     /\ signRet' = [returned |-> TRUE, sigs |-> <<>>,
                                    err |-> parseSigs(reply.sign).err]
                     /\ UNCHANGED <<signI, signatures>>
                ELSE /\ signPc' = "loop"
                     /\ signatures' = signatures \o parseSigs(reply.sign).sigs
                     /\ signI' = signI + signatureBatchSize
                     /\ signRet' = signRet
    /\ UNCHANGED <<signatureHashes, keyPaths>>
    /\ SignOnly

\* The loop of Sign is over: return signatures, nil.
SignReturn ==
    /\ signPc = "loop"
    /\ ~(signI < Len(signatureHashes))
    /\ signPc' = "done"
    /\ signRet' = [returned |-> TRUE, sigs |-> signatures, err |-> "nil"]
    /\ UNCHANGED <<signatureHashes, keyPaths, signI, signLog, signReplies, signatures>>
    /\ SignOnly

(***************************************************************************)
(* Device.XPub                                                             *)
(***************************************************************************)

\* Key paths asked for, and the session password the request is sent with.
XPubPaths == {"m/44'/0'/0'", "m/49'/0'/0'", "m/84'/0'/0'"}
XPubPasswords == {"pw1", "pw2"}
\* 'xpub' strings the device may answer with; the last is no valid key.
XPubStrings == {"xpubA", "xpubB", "xpubC", "garbage"}

NoKey == [valid |-> FALSE, key |-> "none"]

\* hdkeychain.NewKeyFromString: the key a string encodes, or an error.
NewKeyFromString(xpubStr) ==
    IF xpubStr = "garbage" THEN [err |-> "invalid key", key |-> NoKey]
    ELSE [err |-> "nil", key |-> [valid |-> TRUE, key |-> xpubStr]]

\* ExtendedKey.String: the string encoding of a key.
KeyString(k) == k.key

\* The replies to one {"xpub": path} request: a failed send, a reply whose
\* 'xpub' is no string, or a reply carrying a string.
XPubReplies ==
    {[sendErr |-> "send failed", hasXPub |-> FALSE, xpub |-> ""],
     [sendErr |-> "nil", hasXPub |-> FALSE, xpub |-> ""]} \cup
    {[sendErr |-> "nil", hasXPub |-> TRUE, xpub |-> s] : s \in XPubStrings}

\* The closure getXPub, given the reply to its request.
getXPub(reply) ==
    IF reply.sendErr # "nil" THEN [err |-> reply.sendErr, key |-> NoKey]
    ELSE IF ~reply.hasXPub THEN [err |-> "Unexpected reply", key |-> NoKey]
    ELSE NewKeyFromString(reply.xpub)

\* A variant of the comparison that accepts any two keys.
xpubsDifferNever(k1, k2) == FALSE

\* xpub1.String() != xpub2.String()
xpubsDiffer(k1, k2) == KeyString(k1) # KeyString(k2)

NoXPubRet == [returned |-> FALSE, key |-> NoKey, err |-> "nil"]

XPubIdle ==
    /\ xpubPath = ""
    /\ xpubPassword = ""
    /\ xpubPc = "idle"
    /\ xpubLog = <<>>
    /\ xpub1 = NoKey
    /\ xpubRet = NoXPubRet

\* A call of XPub(path) on a session holding a password.
InitXPub ==
    /\ xpubPath \in XPubPaths
    /\ xpubPassword \in XPubPasswords
    /\ xpubPc = "first"
    /\ xpubLog = <<>>
    /\ xpub1 = NoKey
    /\ xpubRet = NoXPubRet

\* One round trip of sendKV("xpub", path, password) as the log keeps it.
XPubRoundTrip(reply) ==
    [xpub |-> xpubPath, password |-> xpubPassword, reply |-> reply]

\* xpub1, err := getXPub(); an error is returned at once.
XPubFirst ==
    /\ xpubPc = "first"
    /\ \E reply \in XPubReplies :
          /\ xpubLog' = Append(xpubLog, XPubRoundTrip(reply))
          /\ IF getXPub(reply).err # "nil"
             THEN /\ xpubPc' = "done"
                  /\ xpubRet' = [returned |-> TRUE, key |-> NoKey,
                                 err |-> getXPub(reply).err]
                  /\ xpub1' = xpub1
             ELSE /\ xpubPc' = "second"
                  /\ xpub1' = getXPub(reply).key
                  /\ xpubRet' = xpubRet
    /\ UNCHANGED <<xpubPath, xpubPassword>>
    /\ XPubOnly

\* xpub2, err := getXPub(), then the comparison and the return.
XPubSecond ==
    /\ xpubPc = "second"
    /\ \E reply \in XPubReplies :
          /\ xpubLog' = Append(xpubLog, XPubRoundTrip(reply))
          /\ xpubRet' =
                IF getXPub(reply).err # "nil"
                THEN [returned |-> TRUE, key |-> NoKey, err |-> getXPub(reply).err]
                ELSE IF xpubsDiffer(xpub1, getXPub(reply).key)
                THEN [returned |-> TRUE, key |-> NoKey,
                      err |-> "Critical: the device returned inconsistent xpubs"]
                ELSE [returned |-> TRUE, key |-> xpub1, err |-> "nil"]
    /\ xpubPc' = "done"
    /\ UNCHANGED <<xpubPath, xpubPassword, xpub1>>
    /\ XPubOnly

(***************************************************************************)
(* The channel lock: concurrent round trips on one Communication           *)
(*                                                                         *)
(* Each thread makes one call.  `wire` is the history of device.Write and  *)
(* device.Read calls, each tagged with the calling thread.                 *)
(***************************************************************************)

\* Concurrent callers.
NumThreads == 2
\* Most device.Read calls one reply takes.
MaxReplyReads == 2
\* Lengths of the (non-empty) messages handed to SendPlain / SendEncrypt:
\* one that fits the init packet and one that needs a continuation packet.
CommMsgLens == {10, 100}

Threads == 1..NumThreads

\* The calls a thread may make and the device.Write calls each takes:
\* sendFrame writes one packet per frame, SendBootloader one buffer, unless
\* its message is longer than maxSendLen.
CommCalls ==
    {[kind |-> k, writes |-> Len(sendFrame(MsgOf(len, 1))), tooLong |-> FALSE] :
        k \in {"SendPlain", "SendEncrypt"}, len \in CommMsgLens}
    \cup {[kind |-> "SendBootloader", writes |-> 1, tooLong |-> l] : l \in BOOLEAN}

NoCall == [kind |-> "none", writes |-> 0, tooLong |-> FALSE]

\* A variant of the lock that never waits.
mutexFreeAlways == TRUE

\* communication.mutex.Lock() returns only when no one holds the mutex.
mutexFree == mutex = 0

CommIdle ==
    /\ mutex = 0
    /\ thrPc = <<>>
    /\ thrCall = <<>>
    /\ thrLeft = <<>>
    /\ wire = <<>>

InitComm ==
    /\ mutex = 0
    /\ thrPc = [t \in Threads |-> "idle"]
    /\ thrCall = [t \in Threads |-> NoCall]
    /\ thrLeft = [t \in Threads |-> 0]
    /\ wire = <<>>

\* A thread calls SendPlain, SendEncrypt or SendBootloader; SendEncrypt
\* returns at once when the message cannot be logged or encrypted.
CommCall(t) ==
    /\ thrPc[t] = "idle"
    /\ \E c \in CommCalls :
          /\ thrCall' = [thrCall EXCEPT ![t] = c]
          /\ \E early \in BOOLEAN :
                /\ early => c.kind = "SendEncrypt"
                /\ thrPc' = [thrPc EXCEPT ![t] = IF early THEN "failed" ELSE "lock"]
    /\ UNCHANGED <<mutex, thrLeft, wire>>
    /\ CommOnly

\* communication.mutex.Lock(); SendBootloader then panics on a message
\* that is too long.
CommLock(t) ==
    /\ thrPc[t] = "lock"
    /\ mutexFree
    /\ mutex' = t
    /\ thrPc' = [thrPc EXCEPT ![t] = IF thrCall[t].tooLong THEN "panic" ELSE "write"]
    /\ thrLeft' = [thrLeft EXCEPT ![t] = thrCall[t].writes]
    /\ UNCHANGED <<thrCall, wire>>
    /\ CommOnly

\* One device.Write of the request; a failing write ends the round trip.
CommWrite(t) ==
    /\ thrPc[t] = "write"
    /\ wire' = Append(wire, [thr |-> t, op |-> "write"])
    /\ \E ok \in BOOLEAN :
          IF ~ok THEN /\ thrPc' = [thrPc EXCEPT ![t] = "returnErr"]
                      /\ thrLeft' = thrLeft
          ELSE IF thrLeft[t] > 1
               THEN /\ thrLeft' = [thrLeft EXCEPT ![t] = thrLeft[t] - 1]
                    /\ thrPc' = thrPc
               ELSE /\ thrLeft' = [thrLeft EXCEPT ![t] = MaxReplyReads]
                    /\ thrPc' = [thrPc EXCEPT ![t] = "read"]
    /\ UNCHANGED <<mutex, thrCall>>
    /\ CommOnly

\* One device.Read of the reply: it fails (read or framing error), completes
\* the reply, completes a reply that SendPlain cannot parse or that holds
\* an error, or leaves more of it to read.
CommRead(t) ==
    /\ thrPc[t] = "read"
    /\ wire' = Append(wire, [thr |-> t, op |-> "read"])
    /\ \E outcome \in {"error", "complete", "badReply", "more"} :
          /\ outcome = "more" => thrLeft[t] > 1
          /\ outcome = "badReply" => thrCall[t].kind # "SendBootloader"
          /\ thrPc' = [thrPc EXCEPT ![t] =
                          CASE outcome = "error" -> "returnErr"
                            [] outcome = "badReply" -> "returnErr"
                            [] outcome = "complete" -> "returnOk"
                            [] outcome = "more" -> "read"]
          /\ thrLeft' = [thrLeft EXCEPT ![t] =
                            IF outcome = "more" THEN thrLeft[t] - 1 ELSE 0]
    /\ UNCHANGED <<mutex, thrCall>>
    /\ CommOnly

\* A variant of the exit of a round trip that unlocks at the return of a
\* reply only.
CommReturnUnlocksOnReply(t) ==
    /\ thrPc[t] \in {"returnErr", "returnOk", "panic"}
    /\ mutex' = IF thrPc[t] = "returnOk" THEN 0 ELSE mutex
    /\ thrPc' = [thrPc EXCEPT ![t] =
                    CASE thrPc[t] = "returnOk" -> "done"
                      [] thrPc[t] = "returnErr" -> "failed"
                      [] thrPc[t] = "panic" -> "panicked"]
    /\ UNCHANGED <<thrCall, thrLeft, wire>>
    /\ CommOnly

\* The round trip returns or panics: the deferred
\* communication.mutex.Unlock() runs.
CommReturn(t) ==
    /\ thrPc[t] \in {"returnErr", "returnOk", "panic"}
    /\ mutex' = 0
    /\ thrPc' = [thrPc EXCEPT ![t] =
                    CASE thrPc[t] = "returnOk" -> "done"
                      [] thrPc[t] = "returnErr" -> "failed"
                      [] thrPc[t] = "panic" -> "panicked"]
    /\ UNCHANGED <<thrCall, thrLeft, wire>>
    /\ CommOnly

(***************************************************************************)
(* Device session                                                          *)
(*                                                                         *)
(* An operation is one action; the outcome of each request it sends is an  *)
(* input: "success" (the reply the operation expects), "unexpected" (any   *)
(* other reply), or an error of the send: "abort" (a device error with     *)
(* code ErrTouchAbort or ErrTouchTimeout), "device" (any other device      *)
(* error) or "other" (an error that is no device error).                   *)
(***************************************************************************)

Passwords == {"", "pw1", "pw2"}
SendErrs == {"abort", "device", "other"}
Outcomes == {"success", "unexpected"} \cup SendErrs

\* Wallet names by what the pattern ^[0-9a-zA-Z-_ ]{1,31}$ looks at.
WalletNames ==
    {[len |-> n, charsOk |-> c] : n \in {0, 1, 31, 32}, c \in BOOLEAN}

\* A variant of the pattern that lets 32 characters pass.
nameMatchesUpTo32(name) == name.charsOk /\ name.len >= 1 /\ name.len <= 32

\* regexp ^[0-9a-zA-Z-_ ]{1,31}$
nameMatches(name) == name.charsOk /\ name.len >= 1 /\ name.len <= 31

\* A variant of Status that looks at the password before the seeded flag.
DeviceStatusPasswordFirst(bl, sd, pw, init) ==
    IF bl THEN "bootloader"
    ELSE IF pw # "" THEN "logged_in"
    ELSE IF sd THEN "seeded"
    ELSE IF init THEN "initialized"
    ELSE "uninitialized"

\* Device.Status, as a function of the fields it reads.
DeviceStatus(bl, sd, pw, init) ==
    IF bl THEN "bootloader"
    ELSE IF sd THEN "seeded"
    ELSE IF pw # "" THEN "logged_in"
    ELSE IF init THEN "initialized"
    ELSE "uninitialized"

\* Status() in the current state.
Status == DeviceStatus(bootloaderStatus, seeded, password, initialized)

\* The fields the operations assign.
Fields == [password |-> password, seeded |-> seeded, initialized |-> initialized]

\* IsErrorAbort
IsErrorAbort(err) == err = "abort"

\* What an operation did: the fields after it, the error it returned, its
\* boolean result (Reset, RestoreBackup), the statusChanged events it fired
\* and the requests it sent.
Effect(f, err, ret, events, sent) ==
    [f |-> f, err |-> err, ret |-> ret, events |-> events, sent |-> sent]

\* Device.SetPassword
SetPasswordEffect(f, pw, outcome) ==
    IF outcome \in SendErrs THEN Effect(f, outcome, FALSE, 0, <<"password">>)
    ELSE IF outcome # "success"
         THEN Effect(f, "Unexpected reply", FALSE, 0, <<"password">>)
    ELSE Effect([f EXCEPT !.password = pw], "nil", FALSE, 1, <<"password">>)

\* Device.LockBootloader: the error it returns.
LockBootloaderErr(outcome) ==
    IF outcome \in SendErrs THEN outcome
    ELSE IF outcome # "success" THEN "Unexpected reply"
    ELSE "nil"

\* Texts are sequences of characters.
attemptsPhrase ==
    <<" ", "a", "t", "t", "e", "m", "p", "t", "s", " ", "r", "e", "m", "a", "i",
      "n", " ", "b", "e", "f", "o", "r", "e">>
nextWord == <<"n", "e", "x", "t">>
Digits == {"0", "1", "2", "3", "4", "5", "6", "7", "8", "9"}

\* Messages a device error can carry: with and without the attempts phrase,
\* with and without "next", the phrase cut short, the phrase without a
\* number, the phrase twice, digits apart from the phrase.
ErrMessages ==
    { <<"x", "1", "5">> \o attemptsPhrase,
      <<"4">> \o attemptsPhrase \o <<" ">> \o nextWord,
      <<"t", "o", "u", "c", "h", " ">> \o nextWord,
      <<"n", "o">> \o attemptsPhrase,
      <<"7">> \o SubSeq(attemptsPhrase, 1, 16),
      <<"2">> \o attemptsPhrase \o <<" ", "9">> \o attemptsPhrase,
      <<"1", " ", "3", "0">> \o attemptsPhrase \o <<" ", "n", "e", "x", " ", "t">>,
      <<>> }

\* Whether err is a device error (errp.Cause(err).(*Error) succeeds).
IsDeviceError(err) == err \in {"abort", "device"}

\* The replies to the device-info query of Login: an error of the send (a
\* device error carries a message), a reply that is no device info, or the
\* info with its seeded and bootlock.
InfoReplies ==
    {[err |-> e, msg |-> m, seeded |-> FALSE, bootlock |-> FALSE] :
        e \in {"abort", "device"}, m \in ErrMessages}
    \cup {[err |-> e, msg |-> <<>>, seeded |-> FALSE, bootlock |-> FALSE] :
        e \in {"other", "unexpected reply"}}
    \cup {[err |-> "nil", msg |-> <<>>, seeded |-> s, bootlock |-> b] :
        s, b \in BOOLEAN}

\* Whether p occurs in s at position i.
HasPrefixAt(s, p, i) ==
    /\ i >= 1
    /\ i + Len(p) - 1 <= Len(s)
    /\ \A k \in 1..Len(p) : s[i + k - 1] = p[k]

\* strings.Contains
Contains(s, p) == \E i \in 1..(Len(s) + 1) : HasPrefixAt(s, p, i)

\* Whether (\d+) attempts remain before matches s from i with the digits
\* ending at j.
attemptsMatch(s, i, j) ==
    /\ i <= j
    /\ \A k \in i..j : s[k] \in Digits
    /\ HasPrefixAt(s, attemptsPhrase, j + 1)

\* regexp (\d+) attempts remain before, FindStringSubmatch: the leftmost
\* match with the longest run of digits, as <<match, group 1>>; <<>> when
\* there is no match.
FindStringSubmatch(s) ==
    LET starts == {i \in 1..Len(s) :
                      s[i] \in Digits /\ \E j \in i..Len(s) : attemptsMatch(s, i, j)}
    IN IF starts = {} THEN <<>>
       ELSE LET i == CHOOSE a \in starts : \A b \in starts : a <= b
                ends == {j \in i..Len(s) : attemptsMatch(s, i, j)}
                j == CHOOSE a \in ends : \A b \in ends : a >= b
            IN <<SubSeq(s, i, j + Len(attemptsPhrase)), SubSeq(s, i, j)>>

\* A variant of Login that returns the whole match of the pattern instead
\* of its group.
LoginReturnWholeMatch(info) ==
    IF info.err # "nil" /\ IsDeviceError(info.err)
    THEN LET groups == FindStringSubmatch(info.msg)
         IN [needsLongTouch |-> Contains(info.msg, nextWord),
             remainingAttempts |-> IF Len(groups) = 2 THEN groups[1] ELSE <<>>]
    ELSE [needsLongTouch |-> FALSE, remainingAttempts |-> <<>>]

\* Device.Login: the needsLongTouch and remainingAttempts it returns.
LoginReturn(info) ==
    IF info.err # "nil" /\ IsDeviceError(info.err)
    THEN LET groups == FindStringSubmatch(info.msg)
         IN [needsLongTouch |-> Contains(info.msg, nextWord),
             remainingAttempts |-> IF Len(groups) = 2 THEN groups[2] ELSE <<>>]
    ELSE [needsLongTouch |-> FALSE, remainingAttempts |-> <<>>]

\* A variant of Login that adopts the password whatever the query returned.
LoginEffectAdoptAlways(f, pw, info, lock) ==
    IF info.err # "nil"
    THEN Effect([f EXCEPT !.password = pw], info.err, FALSE, 0, <<"device">>)
    ELSE IF ~info.bootlock
    THEN Effect([f EXCEPT !.password = pw, !.seeded = info.seeded],
                LockBootloaderErr(lock), FALSE, 1, <<"device", "bootloader">>)
    ELSE Effect([f EXCEPT !.password = pw, !.seeded = info.seeded],
                "nil", FALSE, 1, <<"device">>)

\* A variant of Login that leaves an unlocked bootloader unlocked.
LoginEffectNoLock(f, pw, info, lock) ==
    IF info.err # "nil" THEN Effect(f, info.err, FALSE, 0, <<"device">>)
    ELSE Effect([f EXCEPT !.password = pw, !.seeded = info.seeded],
                "nil", FALSE, 1, <<"device">>)

\* Device.Login
LoginEffect(f, pw, info, lock) ==
    IF info.err # "nil" THEN Effect(f, info.err, FALSE, 0, <<"device">>)
    ELSE IF ~info.bootlock
    THEN Effect([f EXCEPT !.password = pw, !.seeded = info.seeded],
                LockBootloaderErr(lock), FALSE, 1, <<"device", "bootloader">>)
    ELSE Effect([f EXCEPT !.password = pw, !.seeded = info.seeded],
                "nil", FALSE, 1, <<"device">>)

\* Device.seed: the error it returns.
seedErr(outcome) ==
    IF outcome \in SendErrs THEN outcome
    ELSE IF outcome # "success" THEN "Unexpected result"
    ELSE "nil"

\* Device.CreateWallet
CreateWalletEffect(f, walletName, outcome) ==
    IF ~nameMatches(walletName) THEN Effect(f, "invalid wallet name", FALSE, 0, <<>>)
    ELSE IF seedErr(outcome) # "nil"
         THEN Effect(f, seedErr(outcome), FALSE, 0, <<"seed">>)
    ELSE Effect([f EXCEPT !.seeded = TRUE], "nil", FALSE, 1, <<"seed">>)

\* Device.SetName: the session is left as it is.
SetNameEffect(f, name, outcome) ==
    IF ~nameMatches(name) THEN Effect(f, "Invalid device name", FALSE, 0, <<>>)
    ELSE IF outcome \in SendErrs THEN Effect(f, outcome, FALSE, 0, <<"name">>)
    ELSE IF outcome # "success"
         THEN Effect(f, "unexpected result", FALSE, 0, <<"name">>)
    ELSE Effect(f, "nil", FALSE, 0, <<"name">>)

\* A variant of RestoreBackup that takes an abort for a restored backup.
RestoreBackupEffectAbortRestores(f, outcome) ==
    IF IsErrorAbort(seedErr(outcome))
    THEN Effect([f EXCEPT !.seeded = TRUE], "nil", TRUE, 1, <<"seed">>)
    ELSE IF seedErr(outcome) # "nil"
         THEN Effect(f, seedErr(outcome), FALSE, 0, <<"seed">>)
    ELSE Effect([f EXCEPT !.seeded = TRUE], "nil", TRUE, 1, <<"seed">>)

\* Device.RestoreBackup
RestoreBackupEffect(f, outcome) ==
    IF IsErrorAbort(seedErr(outcome)) THEN Effect(f, "nil", FALSE, 0, <<"seed">>)
    ELSE IF seedErr(outcome) # "nil"
         THEN Effect(f, seedErr(outcome), FALSE, 0, <<"seed">>)
    ELSE Effect([f EXCEPT !.seeded = TRUE], "nil", TRUE, 1, <<"seed">>)

\* A variant of Reset that leaves the initialized flag as it was.
ResetEffectKeepsInitialized(f, outcome) ==
    IF outcome \in SendErrs /\ IsErrorAbort(outcome)
    THEN Effect(f, "nil", FALSE, 0, <<"reset">>)
    ELSE IF outcome \in SendErrs THEN Effect(f, outcome, FALSE, 0, <<"reset">>)
    ELSE IF outcome # "success"
         THEN Effect(f, "unexpected reply", FALSE, 0, <<"reset">>)
    ELSE Effect([f EXCEPT !.password = "", !.seeded = FALSE],
                "nil", TRUE, 1, <<"reset">>)

\* Device.Reset
ResetEffect(f, outcome) ==
    IF outcome \in SendErrs /\ IsErrorAbort(outcome)
    THEN Effect(f, "nil", FALSE, 0, <<"reset">>)
    ELSE IF outcome \in SendErrs THEN Effect(f, outcome, FALSE, 0, <<"reset">>)
    ELSE IF outcome # "success"
         THEN Effect(f, "unexpected reply", FALSE, 0, <<"reset">>)
    ELSE Effect([password |-> "", seeded |-> FALSE, initialized |-> FALSE],
                "nil", TRUE, 1, <<"reset">>)

NoInfo == [err |-> "none", msg |-> <<>>, seeded |-> FALSE, bootlock |-> FALSE]

\* The record of the last operation: its name and argument, Status() and
\* the fields before it, the device info Login received, the outcome of
\* the operation's (last) request, what Effect says it did, and what Login
\* returned beside the error.
OpRecord(op, arg, info, outcome, eff) ==
    [op |-> op, arg |-> arg, before |-> Status, beforeF |-> Fields,
     info |-> info, outcome |-> outcome, closedBefore |-> closed,
     err |-> eff.err, ret |-> eff.ret, events |-> eff.events, sent |-> eff.sent,
     login |-> IF op = "Login" THEN LoginReturn(info) ELSE LoginReturn(NoInfo)]

\* The operation's assignments to the session.
Apply(op, arg, info, outcome, eff) ==
    /\ password' = eff.f.password
    /\ seeded' = eff.f.seeded
    /\ initialized' = eff.f.initialized
    /\ devLastOp' = OpRecord(op, arg, info, outcome, eff)
    /\ UNCHANGED <<bootloaderMode, bootloaderStatus, closed, handleCloses>>
    /\ DevOnly

DevIdle ==
    /\ bootloaderMode = FALSE
    /\ bootloaderStatus = FALSE
    /\ initialized = FALSE
    /\ password = ""
    /\ seeded = FALSE
    /\ devLastOp = [op |-> "none"]
    /\ closed = FALSE
    /\ handleCloses = 0

\* The session NewDevice returns: bootloaderStatus is set exactly in
\* bootloader mode, initialized is what the ping reported (not probed in
\* bootloader mode), no password, not seeded.
InitDev ==
    /\ bootloaderMode \in BOOLEAN
    /\ bootloaderStatus = bootloaderMode
    /\ initialized \in BOOLEAN
    /\ bootloaderMode => ~initialized
    /\ password = ""
    /\ seeded = FALSE
    /\ devLastOp = [op |-> "NewDevice", arg |-> "", before |-> "none",
                    beforeF |-> Fields, info |-> NoInfo, outcome |-> "none",
                    closedBefore |-> FALSE,
                    err |-> "nil", ret |-> FALSE, events |-> 0, sent |-> <<>>,
                    login |-> LoginReturn(NoInfo)]
    /\ closed = FALSE
    /\ handleCloses = 0

SetPassword ==
    \E pw \in Passwords, outcome \in Outcomes :
        Apply("SetPassword", pw, NoInfo, outcome, SetPasswordEffect(Fields, pw, outcome))

Login ==
    \E pw \in Passwords, info \in InfoReplies, lock \in Outcomes :
        /\ (info.err # "nil" \/ info.bootlock) => lock = "success"
        /\ Apply("Login", pw, info, lock, LoginEffect(Fields, pw, info, lock))

CreateWallet ==
    \E walletName \in WalletNames, outcome \in Outcomes :
        /\ ~nameMatches(walletName) => outcome = "success"
        /\ Apply("CreateWallet", walletName, NoInfo, outcome,
                 CreateWalletEffect(Fields, walletName, outcome))

SetName ==
    \E name \in WalletNames, outcome \in Outcomes :
        /\ ~nameMatches(name) => outcome = "success"
        /\ Apply("SetName", name, NoInfo, outcome, SetNameEffect(Fields, name, outcome))

RestoreBackup ==
    \E outcome \in Outcomes :
        Apply("RestoreBackup", "", NoInfo, outcome, RestoreBackupEffect(Fields, outcome))

Reset ==
    \E outcome \in Outcomes :
        Apply("Reset", "", NoInfo, outcome, ResetEffect(Fields, outcome))

\* The largest number of calls of Close.
MaxCloses == 2

\* Communication.Close: panics when closing the handle fails.
CommunicationClose(closeErr) == IF closeErr THEN "panic" ELSE "nil"

\* Device.Close: closes the transport handle, whatever Device.closed
\* says, then sets Device.closed; a handle that fails to close (as one
\* closed before may) makes the call panic before the flag is set.
Close ==
    /\ handleCloses < MaxCloses
    /\ \E closeErr \in BOOLEAN :
          /\ handleCloses' = handleCloses + 1
          /\ closed' = IF CommunicationClose(closeErr) = "panic" THEN closed ELSE TRUE
          /\ devLastOp' = OpRecord("Close", "", NoInfo,
                                   IF closeErr THEN "other" ELSE "success",
                                   Effect(Fields, CommunicationClose(closeErr),
                                          FALSE, 0, <<>>))
    /\ UNCHANGED <<bootloaderMode, bootloaderStatus, initialized, password, seeded>>
    /\ DevOnly

(***************************************************************************)
(* SignTransaction (coins/btc/sign.go)                                     *)
(*                                                                         *)
(* An outpoint is a number and an output the amount the canonical order    *)
(* compares, so a transaction is canonically ordered when its outpoints    *)
(* and its outputs are in ascending order.  A signature names the hash and *)
(* the key path it was made for; script verification of an input succeeds  *)
(* when the input carries a good signature for that input's hash and its   *)
(* spent output's key path.  The signing backend is any KeyStore: it may   *)
(* fail, or return any number of signatures, good or not.                  *)
(***************************************************************************)

\* The largest number of inputs of a transaction.
MaxInputs == 2

Outpoints == 1..3

\* Output lists: canonical, not canonical, single.
TxOutputs == {<<1, 2>>, <<2, 1>>, <<1>>}

NoScript == [signed |-> FALSE]

\* The output an outpoint spends: its address's key path and kind, its value.
SpentOutput(op) ==
    [keyPath |-> <<"m", op>>, segwit |-> op % 2 = 0, value |-> 10 * op]

\* Input lists: outpoints without repetition, in any order, none signed.
TxInputs ==
    UNION {{[i \in 1..n |-> [outpoint |-> f[i], script |-> NoScript]] :
                f \in {g \in [1..n -> Outpoints] :
                          \A a, b \in 1..n : a # b => g[a] # g[b]}} :
           n \in 0..MaxInputs}

\* The signature hash of input index of the transaction
\* (CalcWitnessSigHash for a segwit address, CalcSignatureHash otherwise).
SigHash(inputs, outputs, index, spent) ==
    [kind |-> IF spent.segwit THEN "witness" ELSE "legacy",
     index |-> index, outpoint |-> inputs[index].outpoint,
     value |-> IF spent.segwit THEN spent.value ELSE 0, outputs |-> outputs]

\* A signature over hash by the key at keyPath; good tells a valid one.
Signature(hash, keyPath, good) == [hash |-> hash, keyPath |-> keyPath, good |-> good]

\* address.InputData: the signature script or witness carrying a signature.
InputData(spent, signature) ==
    [signed |-> TRUE, witness |-> spent.segwit, signature |-> signature]

\* txsort.IsSorted
IsSorted(inputs, outputs) ==
    /\ \A a, b \in 1..Len(inputs) : a < b => inputs[a].outpoint <= inputs[b].outpoint
    /\ \A a, b \in 1..Len(outputs) : a < b => outputs[a] <= outputs[b]

\* txscript engine: input index verifies against its spent output.
ScriptVerifies(inputs, outputs, prev, index) ==
    LET spent == prev[inputs[index].outpoint]
        script == inputs[index].script
    IN /\ script.signed
       /\ script.witness = spent.segwit
       /\ script.signature.good
       /\ script.signature.hash = SigHash(inputs, outputs, index, spent)
       /\ script.signature.keyPath = spent.keyPath

\* A variant of txValidityCheck that verifies the first input only.
txValidityCheckFirstInput(inputs, outputs, prev) ==
    IF ~IsSorted(inputs, outputs) THEN "tx not bip69 conformant"
    ELSE IF \E i \in 1..Len(inputs) : inputs[i].outpoint \notin DOMAIN prev
    THEN "output/input mismatch"
    ELSE IF \E i \in 1..Min(1, Len(inputs)) : ~ScriptVerifies(inputs, outputs, prev, i)
    THEN "script verification failed"
    ELSE "nil"

\* txValidityCheck: the error it returns ("nil" when none).
txValidityCheck(inputs, outputs, prev) ==
    IF ~IsSorted(inputs, outputs) THEN "tx not bip69 conformant"
    ELSE IF \E i \in 1..Len(inputs) : inputs[i].outpoint \notin DOMAIN prev
    THEN "output/input mismatch"
    ELSE IF \E i \in 1..Len(inputs) : ~ScriptVerifies(inputs, outputs, prev, i)
    THEN "script verification failed"
    ELSE "nil"

Reverse(q) == [i \in 1..Len(q) |-> q[Len(q) + 1 - i]]

\* What a signing backend may return for hashes and key paths: an error, or
\* a list of signatures one short, exact or one long, all good, one of
\* them bad, or in reverse order.
BackendReplies(hashes, paths) ==
    LET n == Len(hashes)
        np == Len(paths)
        sig(i, bad) == IF i <= n /\ i <= np
                       THEN Signature(hashes[i], paths[i], i # bad)
                       ELSE Signature(<<>>, <<>>, TRUE)
        list(len, bad) == [i \in 1..len |-> sig(i, bad)]
    IN {[err |-> "backend error", sigs |-> <<>>]}
       \cup {[err |-> "nil", sigs |-> list(len, bad)] :
                len \in {k \in {n - 1, n, n + 1} : k >= 0}, bad \in 0..n}
       \cup {[err |-> "nil", sigs |-> Reverse(list(n, 0))]}

TxEvent(ev, i) == [ev |-> ev, i |-> i]

TxIdle ==
    /\ txIn = <<>>
    /\ txOut = <<>>
    /\ previousOutputs = <<>>
    /\ txPc = "idle"
    /\ txI = 0
    /\ txHashes = <<>>
    /\ txKeyPaths = <<>>
    /\ txSigs = <<>>
    /\ txLog = <<>>
    /\ txRet = "none"

\* SignTransaction is called with a transaction and a map of spent outputs.
InitTx ==
    /\ txIn \in TxInputs
    /\ txOut \in TxOutputs
    /\ \E known \in SUBSET Outpoints :
          previousOutputs = [op \in known |-> SpentOutput(op)]
    /\ txPc = "hash"
    /\ txI = 1
    /\ txHashes = <<>>
    /\ txKeyPaths = <<>>
    /\ txSigs = <<>>
    /\ txLog = <<>>
    /\ txRet = "none"

TxReturn(ret) ==
    /\ txPc' = "returned"
    /\ txRet' = ret

HashStep(ret, add, hash, keyPath) ==
    [ret |-> ret, add |-> add, hash |-> hash, keyPath |-> keyPath]

\* A variant of the first loop that skips an input whose spent output is
\* not known.
hashStepSkipsUnknown(inputs, outputs, prev, i, hashErr) ==
    IF inputs[i].outpoint \notin DOMAIN prev
    THEN HashStep("none", FALSE, <<>>, <<>>)
    ELSE IF hashErr
    THEN HashStep("Failed to calculate signature hash", FALSE, <<>>, <<>>)
    ELSE LET spent == prev[inputs[i].outpoint]
         IN HashStep("none", TRUE, SigHash(inputs, outputs, i, spent), spent.keyPath)

\* One round of the first loop of SignTransaction: look the spent output
\* up (panic when there is none), compute the signature hash (which may
\* fail), yield the hash and the key path to append.
hashStep(inputs, outputs, prev, i, hashErr) ==
    IF inputs[i].outpoint \notin DOMAIN prev
    THEN HashStep("panic: output/input mismatch", FALSE, <<>>, <<>>)
    ELSE IF hashErr
    THEN HashStep("Failed to calculate signature hash", FALSE, <<>>, <<>>)
    ELSE LET spent == prev[inputs[i].outpoint]
         IN HashStep("none", TRUE, SigHash(inputs, outputs, i, spent), spent.keyPath)

TxComputeHash ==
    /\ txPc = "hash"
    /\ txI <= Len(txIn)
    /\ \E hashErr \in BOOLEAN :
          LET step == hashStep(txIn, txOut, previousOutputs, txI, hashErr)
          IN /\ hashErr => txIn[txI].outpoint \in DOMAIN previousOutputs
             /\ IF step.ret # "none"
                THEN /\ TxReturn(step.ret)
                     /\ UNCHANGED <<txI, txHashes, txKeyPaths, txLog>>
                ELSE /\ txHashes' = IF step.add THEN Append(txHashes, step.hash)
                                    ELSE txHashes
                     /\ txKeyPaths' = IF step.add THEN Append(txKeyPaths, step.keyPath)
                                      ELSE txKeyPaths
                     /\ txLog' = IF step.add THEN Append(txLog, TxEvent("hash", txI))
                                 ELSE txLog
                     /\ txI' = txI + 1
                     /\ UNCHANGED <<txPc, txRet>>
    /\ UNCHANGED <<txIn, txOut, previousOutputs, txSigs>>
    /\ TxOnly

\* keyStore.Sign and the check of the number of signatures.
TxSign ==
    /\ txPc = "hash"
    /\ txI > Len(txIn)
    /\ \E reply \in BackendReplies(txHashes, txKeyPaths) :
          /\ txLog' = Append(txLog, TxEvent("sign", 0))
          /\ IF reply.err # "nil"
             THEN /\ TxReturn("Failed to sign signature hash")
                  /\ UNCHANGED <<txSigs, txI>>
             ELSE IF Len(reply.sigs) # Len(txIn)
             THEN /\ TxReturn("panic: number of signatures")
                  /\ txSigs' = reply.sigs
                  /\ UNCHANGED txI
             ELSE /\ txSigs' = reply.sigs
                  /\ txPc' = "assemble"
                  /\ txI' = 1
                  /\ UNCHANGED txRet
    /\ UNCHANGED <<txIn, txOut, previousOutputs, txHashes, txKeyPaths>>
    /\ TxOnly

\* A variant of the second loop that takes the signatures from the end.
assembleFromEnd(inputs, prev, sigs, i) ==
    [inputs EXCEPT ![i].script =
        InputData(prev[inputs[i].outpoint], sigs[Len(sigs) + 1 - i])]

\* One round of the second loop: the inputs with the i-th signature put
\* into input i.
assemble(inputs, prev, sigs, i) ==
    [inputs EXCEPT ![i].script = InputData(prev[inputs[i].outpoint], sigs[i])]

\* One round of the second loop; a spent output that is not known is a nil
\* pointer there.
TxAssemble ==
    /\ txPc = "assemble"
    /\ txI <= Len(txIn)
    /\ IF txIn[txI].outpoint \notin DOMAIN previousOutputs
       THEN /\ TxReturn("panic: nil pointer dereference")
            /\ UNCHANGED <<txIn, txLog, txI>>
       ELSE /\ txIn' = assemble(txIn, previousOutputs, txSigs, txI)
            /\ txLog' = Append(txLog, TxEvent("assemble", txI))
            /\ txI' = txI + 1
            /\ UNCHANGED <<txPc, txRet>>
    /\ UNCHANGED <<txOut, previousOutputs, txHashes, txKeyPaths, txSigs>>
    /\ TxOnly

\* The sanity check after assembly, and the return.
TxValidate ==
    /\ txPc = "assemble"
    /\ txI > Len(txIn)
    /\ txLog' = Append(txLog, TxEvent("validate", 0))
    /\ IF txValidityCheck(txIn, txOut, previousOutputs) # "nil"
       THEN TxReturn("panic: validity check")
       ELSE TxReturn("nil")
    /\ UNCHANGED <<txIn, txOut, previousOutputs, txI, txHashes, txKeyPaths, txSigs>>
    /\ TxOnly

(***************************************************************************)
(* NewDevice (devices/bitbox/device.go)                                    *)
(*                                                                         *)
(* A version is <<major, minor, patch>>.  The only messages NewDevice      *)
(* sends are the pings of the readiness probe; a ping's outcome is the     *)
(* reply "password" (initialized), another reply, the device error         *)
(* ErrInitializing, another device error, or an error of the transport.    *)
(***************************************************************************)

lowestSupportedFirmwareVersion == <<2, 2, 2>>
lowestNonSupportedFirmwareVersion == <<4, 0, 0>>

lowestSupportedBootloaderVersion == ndBootloaderVersions.lowest
lowestNonSupportedBootloaderVersion == ndBootloaderVersions.lowestNon

\* The number of rounds of the probe loop.
maxPings == 20

\* Versions around the bounds of the supported ranges.
Versions == {<<a, b, c>> : a \in 1..4, b \in {0, 2, 3}, c \in 0..3}

\* Ranges the bootloader versions may be bounded by.
BootloaderVersionRanges ==
    {[lowest |-> <<1, 0, 0>>, lowestNon |-> <<3, 0, 0>>],
     [lowest |-> <<2, 2, 2>>, lowestNon |-> <<2, 3, 1>>]}

PingOutcomes == {"password", "false", "initializing", "device", "other"}

\* semver: v is at least w (versions compare field by field).
AtLeast(v, w) ==
    \/ v[1] > w[1]
    \/ v[1] = w[1] /\ v[2] > w[2]
    \/ v[1] = w[1] /\ v[2] = w[2] /\ v[3] >= w[3]

\* semver: lower <= v < upper.
Between(v, lower, upper) == AtLeast(v, lower) /\ ~AtLeast(v, upper)

\* A variant of the version check that has no upper bound for firmware.
versionSupportedNoUpper(bootloader, version) ==
    IF bootloader
    THEN Between(version, lowestSupportedBootloaderVersion,
                 lowestNonSupportedBootloaderVersion)
    ELSE AtLeast(version, lowestSupportedFirmwareVersion)

\* NewDevice: whether the version passes the check at its start.
versionSupported(bootloader, version) ==
    IF bootloader
    THEN Between(version, lowestSupportedBootloaderVersion,
                 lowestNonSupportedBootloaderVersion)
    ELSE Between(version, lowestSupportedFirmwareVersion,
                 lowestNonSupportedFirmwareVersion)

\* Device.Ping: [initialized, err] for an outcome of its request.
Ping(outcome) ==
    IF outcome \in {"initializing", "device", "other"}
    THEN [initialized |-> FALSE, err |-> outcome]
    ELSE [initialized |-> outcome = "password", err |-> "nil"]

\* A variant of the probe loop that pings again after any error.
probeStepRetriesAnyError(ping) ==
    IF ping.err # "nil" THEN "continue" ELSE "break"

\* The probe loop's reaction to a ping: ping again while the device is
\* still initializing, give up on another error, stop on a reply.
probeStep(ping) ==
    IF ping.err # "nil"
    THEN IF ping.err = "initializing" THEN "continue" ELSE "return"
    ELSE "break"

NoDevice == [device |-> FALSE, err |-> "none"]

NdIdle ==
    /\ ndBootloader = FALSE
    /\ ndVersion = <<0, 0, 0>>
    /\ ndBootloaderVersions = [lowest |-> <<0, 0, 0>>, lowestNon |-> <<0, 0, 0>>]
    /\ ndPc = "idle"
    /\ ndPings = <<>>
    /\ ndInitialized = FALSE
    /\ ndRet = NoDevice

\* NewDevice is called with a mode and a version.
InitNd ==
    /\ ndBootloader \in BOOLEAN
    /\ ndVersion \in Versions
    /\ ndBootloaderVersions \in BootloaderVersionRanges
    /\ ndPc = "start"
    /\ ndPings = <<>>
    /\ ndInitialized = FALSE
    /\ ndRet = NoDevice

NdOnly == UNCHANGED <<frameVars, chainVars, signVars, xpubVars, commVars, txVars,
                      rdVars, rpVars,
                        nacVars,
                        soVars,
                        pkVars,
                        ocVars>>

\* The version check, and the construction of the device.
NdCheckVersion ==
    /\ ndPc = "start"
    /\ IF ~versionSupported(ndBootloader, ndVersion)
       THEN /\ ndPc' = "returned"
            /\ ndRet' = [device |-> FALSE, err |-> "version is not supported"]
       ELSE /\ ndPc' = IF ndBootloader THEN "finish" ELSE "probe"
            /\ UNCHANGED ndRet
    /\ UNCHANGED <<ndBootloader, ndVersion, ndBootloaderVersions, ndPings,
                   ndInitialized, devVars>>
    /\ NdOnly

\* One round of the probe loop.
NdPing ==
    /\ ndPc = "probe"
    /\ Len(ndPings) < maxPings
    /\ \E outcome \in PingOutcomes :
          LET ping == Ping(outcome)
          IN /\ ndPings' = Append(ndPings, outcome)
             /\ ndInitialized' = ping.initialized
             /\ IF probeStep(ping) = "return"
                THEN /\ ndPc' = "returned"
                     /\ ndRet' = [device |-> FALSE, err |-> ping.err]
                ELSE /\ ndPc' = IF probeStep(ping) = "break" THEN "finish" ELSE "probe"
                     /\ UNCHANGED ndRet
    /\ UNCHANGED <<ndBootloader, ndVersion, ndBootloaderVersions, devVars>>
    /\ NdOnly

\* The end of NewDevice: the device it returns.
NdFinish ==
    /\ \/ ndPc = "finish"
       \/ ndPc = "probe" /\ Len(ndPings) >= maxPings
    /\ ndPc' = "returned"
    /\ ndRet' = [device |-> TRUE, err |-> "nil"]
    /\ bootloaderMode' = ndBootloader
    /\ bootloaderStatus' = ndBootloader
    /\ initialized' = IF ndBootloader THEN FALSE ELSE ndInitialized
    /\ UNCHANGED <<password, seeded, devLastOp, closed, handleCloses>>
    /\ UNCHANGED <<ndBootloader, ndVersion, ndBootloaderVersions, ndPings,
                   ndInitialized>>
    /\ NdOnly

(***************************************************************************)
(* readFrame on what a device sends                                        *)
(*                                                                         *)
(* The device's reads return packets of any length up to the report size:  *)
(* a first packet that is well formed or not, declaring any length, and    *)
(* continuation packets, some shorter than their header.                   *)
(***************************************************************************)

\* The largest number of continuation packets pending.
MaxContPackets == 2

\* First packets: well formed, a wrong first or last byte of the channel
\* identifier, a wrong command byte.
FirstKinds == {"ok", "cid0", "cid3", "cmd"}
FirstLens == {6, 7, 20, 64}
DeclaredLens == {0, 10, 57, 58, 100, 116, 130}
ContLens == {4, 30, 64}

\* A first packet of the given kind and length declaring dataLen.
FirstPacket(kind, len, dataLen) ==
    LET cid == IF kind = "cid0" THEN <<254, 0, 0, 0>>
               ELSE IF kind = "cid3" THEN <<255, 0, 0, 1>>
               ELSE hwwCID
        cmd == IF kind = "cmd" THEN 192 ELSE hwwCMD
        full == cid \o <<cmd, dataLen \div 256, dataLen % 256>>
                    \o [i \in 1..(usbReportSize - 7) |-> i]
    IN SubSeq(full, 1, len)

\* A continuation packet of the given length.
ContPacket(seq, len) ==
    SubSeq(contHeader(seq) \o [i \in 1..(usbReportSize - 5) |-> 100 + i], 1, len)

\* What the device may have pending: nothing, or a first packet and up to
\* MaxContPackets continuation packets.
IncomingSequences ==
    {<<>>} \cup
    UNION {{<<FirstPacket(kind, len, dataLen)>>
                \o [k \in 1..n |-> ContPacket(k - 1, lens[k])] :
              kind \in FirstKinds, len \in FirstLens, dataLen \in DeclaredLens,
              lens \in [1..n -> ContLens]} :
           n \in 0..MaxContPackets}

RdIdle ==
    /\ incoming = <<>>
    /\ rdPc = "idle"
    /\ rdRet = [err |-> "nil", data |-> <<>>]
    /\ rdRest = <<>>

InitRd ==
    /\ incoming \in IncomingSequences
    /\ rdPc = "pending"
    /\ rdRet = [err |-> "nil", data |-> <<>>]
    /\ rdRest = incoming

RdOnly == UNCHANGED <<frameVars, chainVars, signVars, xpubVars, commVars, devVars,
                      txVars, ndVars, rpVars,
                        nacVars,
                        soVars,
                        pkVars,
                        ocVars>>

\* Communication.readFrame on the pending packets.
ReadIncoming ==
    /\ rdPc = "pending"
    /\ rdRet' = [err |-> readFrame(incoming).err, data |-> readFrame(incoming).data]
    /\ rdRest' = readFrame(incoming).rest
    /\ rdPc' = "read"
    /\ UNCHANGED incoming
    /\ RdOnly

(***************************************************************************)
(* SendPlain and SendEncrypt on a device's answer                          *)
(*                                                                         *)
(* A JSON value is tagged with its type; a JSON object is a function from  *)
(* its keys.  A ciphertext names the secret it was made with and the text  *)
(* it holds: aes.Decrypt succeeds with that secret only.                   *)
(***************************************************************************)

Str(v) == [t |-> "string", v |-> v]
Num(v) == [t |-> "number", v |-> v]
Obj(v) == [t |-> "object", v |-> v]
CipherStr(secret, text) == [t |-> "string", secret |-> secret, text |-> text]

\* chainhash.DoubleHashB([]byte(password))
Secret(pw) == <<"secret", pw>>

RpPasswords == {"pw1", "pw2"}

\* Error objects: complete, without message, message no string, without
\* code, code no number, empty.
ErrorObjects ==
    {[message |-> Str("m101"), code |-> Num(101)],
     [message |-> Str("m600"), code |-> Num(600)],
     [code |-> Num(101)],
     [message |-> Num(7), code |-> Num(101)],
     [message |-> Str("m101")],
     [message |-> Str("m101"), code |-> Str("101")],
     <<>>}

\* Replies of the device in the clear: a result, an error object alone or
\* beside a result, an "error" that is no object.
PlainReplies ==
    {[ping |-> Str("password")], [ping |-> Str("false"), n |-> Num(1)], <<>>,
     [error |-> Str("m101")]}
    \cup {[error |-> Obj(e)] : e \in ErrorObjects}
    \cup {[error |-> Obj(e), ping |-> Str("password")] : e \in ErrorObjects}

\* A text is JSON (an object) or not.
Texts == {[json |-> FALSE, v |-> <<>>]} \cup {[json |-> TRUE, v |-> r] : r \in PlainReplies}

\* Replies carrying a ciphertext field: made with the secret of either
\* password, a string or not, alone or beside an error object.
CipherReplies ==
    {[ciphertext |-> CipherStr(Secret(pw), text)] : pw \in RpPasswords, text \in Texts}
    \cup {[ciphertext |-> Num(1)], [ciphertext |-> Num(1), ping |-> Str("password")]}
    \cup {[ciphertext |-> CipherStr(Secret(pw), [json |-> TRUE, v |-> [ping |-> Str("password")]]),
           error |-> Obj(e)] : pw \in RpPasswords, e \in ErrorObjects}

\* What the transport yields for a round trip: sendFrame fails, readFrame
\* fails, or the reply text.
WireOutcomes ==
    {[err |-> "send error", text |-> [json |-> FALSE, v |-> <<>>]],
     [err |-> "read error", text |-> [json |-> FALSE, v |-> <<>>]]}
    \cup {[err |-> "nil", text |-> t] : t \in Texts}
    \cup {[err |-> "nil", text |-> [json |-> TRUE, v |-> r]] : r \in CipherReplies}

\* What a call returns: the error ("nil", "device" with message and code,
\* or another error) and the reply map, when it returns one.
Returned(err, message, code, hasReply, reply) ==
    [err |-> err, message |-> message, code |-> code, hasReply |-> hasReply,
     reply |-> reply]

Failed(err) == Returned(err, "", 0, FALSE, <<>>)

\* A variant of maybeDBBErr that does not look at the type of the code.
maybeDBBErrAnyCode(jsonResult) ==
    IF "error" \in DOMAIN jsonResult /\ jsonResult["error"].t = "object"
    THEN LET errMap == jsonResult["error"].v
         IN IF ~("message" \in DOMAIN errMap /\ errMap["message"].t = "string")
            THEN Failed("Unexpected reply")
            ELSE IF "code" \notin DOMAIN errMap
            THEN Returned("device", errMap["message"].v, 0, FALSE, <<>>)
            ELSE Returned("device", errMap["message"].v, errMap["code"].v, FALSE, <<>>)
    ELSE Failed("nil")

\* maybeDBBErr: the error of a parsed reply ("nil" when it has none).
maybeDBBErr(jsonResult) ==
    IF "error" \in DOMAIN jsonResult /\ jsonResult["error"].t = "object"
    THEN LET errMap == jsonResult["error"].v
         IN IF ~("message" \in DOMAIN errMap /\ errMap["message"].t = "string")
            THEN Failed("Unexpected reply")
            ELSE IF ~("code" \in DOMAIN errMap /\ errMap["code"].t = "number")
            THEN Failed("Unexpected reply")
            ELSE Returned("device", errMap["message"].v, errMap["code"].v, FALSE, <<>>)
    ELSE Failed("nil")

\* Communication.SendPlain, given what its round trip yields.
SendPlain(wireOutcome) ==
    IF wireOutcome.err # "nil" THEN Failed(wireOutcome.err)
    ELSE IF ~wireOutcome.text.json THEN Failed("Failed to unmarshal reply")
    ELSE IF maybeDBBErr(wireOutcome.text.v).err # "nil"
    THEN maybeDBBErr(wireOutcome.text.v)
    ELSE Returned("nil", "", 0, TRUE, wireOutcome.text.v)

\* aes.Decrypt: the text of a ciphertext made with the same secret.
Decrypt(secret, cipherText) ==
    IF cipherText.secret = secret THEN [err |-> "nil", text |-> cipherText.text]
    ELSE [err |-> "decrypt error", text |-> [json |-> FALSE, v |-> <<>>]]

\* Whether jsonResult["ciphertext"].(string) succeeds.
hasCipherText(jsonResult) ==
    "ciphertext" \in DOMAIN jsonResult /\ jsonResult["ciphertext"].t = "string"

\* The part of SendEncrypt after its round trip.
afterRoundTrip(plain, pw) ==
    IF plain.err # "nil" THEN plain
    ELSE IF hasCipherText(plain.reply)
    THEN LET dec == Decrypt(Secret(pw), plain.reply["ciphertext"])
         IN IF dec.err # "nil" THEN Failed("Failed to decrypt reply")
            ELSE IF ~dec.text.json THEN Failed("Failed to unmarshal reply")
            ELSE IF maybeDBBErr(dec.text.v).err # "nil" THEN maybeDBBErr(dec.text.v)
            ELSE Returned("nil", "", 0, TRUE, dec.text.v)
    ELSE plain

\* Communication.SendEncrypt: what it returns and how many round trips
\* (calls of SendPlain) it made.
SendEncrypt(msgOk, encryptOk, pw, wireOutcome) ==
    IF ~msgOk THEN [ret |-> Failed("Invalid JSON passed"), roundTrips |-> 0]
    ELSE IF ~encryptOk THEN [ret |-> Failed("Failed to encrypt command"), roundTrips |-> 0]
    ELSE [ret |-> afterRoundTrip(SendPlain(wireOutcome), pw), roundTrips |-> 1]

RpIdle ==
    /\ rpOp = "none"
    /\ rpMsgOk = TRUE
    /\ rpEncryptOk = TRUE
    /\ rpPassword = ""
    /\ rpWire = [err |-> "none"]
    /\ rpPc = "idle"
    /\ rpRoundTrips = 0
    /\ rpRet = Failed("none")

\* A call is about to be made: its command, its password, and what the
\* device will answer.
InitRp ==
    /\ rpOp = "none"
    /\ rpMsgOk \in BOOLEAN
    /\ rpEncryptOk \in BOOLEAN
    /\ rpPassword \in RpPasswords
    /\ rpWire \in WireOutcomes
    /\ rpPc = "pending"
    /\ rpRoundTrips = 0
    /\ rpRet = Failed("none")

RpOnly == UNCHANGED <<frameVars, chainVars, signVars, xpubVars, commVars, devVars,
                      txVars, ndVars, rdVars, nacVars,
                        soVars,
                        pkVars,
                        ocVars>>

\* A call of SendPlain (a command that cannot be logged is sent all the
\* same).
SendPlainCall ==
    /\ rpPc = "pending"
    /\ rpOp' = "SendPlain"
    /\ rpRet' = SendPlain(rpWire)
    /\ rpRoundTrips' = 1
    /\ rpPc' = "returned"
    /\ UNCHANGED <<rpMsgOk, rpEncryptOk, rpPassword, rpWire>>
    /\ RpOnly

\* A call of SendEncrypt.
SendEncryptCall ==
    /\ rpPc = "pending"
    /\ rpOp' = "SendEncrypt"
    /\ rpRet' = SendEncrypt(rpMsgOk, rpEncryptOk, rpPassword, rpWire).ret
    /\ rpRoundTrips' = SendEncrypt(rpMsgOk, rpEncryptOk, rpPassword, rpWire).roundTrips
    /\ rpPc' = "returned"
    /\ UNCHANGED <<rpMsgOk, rpEncryptOk, rpPassword, rpWire>>
    /\ RpOnly

(***************************************************************************)
(* NewAddressChain                                                         *)
(*                                                                         *)
(* An extended key is kept as whether it is private, the network its       *)
(* version bytes name, and the path of child indices it was derived by.    *)
(***************************************************************************)

Nets == {"mainnet", "testnet"}

\* hdkeychain.HardenedKeyStart (0x80000000), scaled down but above every
\* address index derived here: a child index from it on is hardened.
HardenedKeyStart == 8

\* Chain indices tried: receive and change chain, and a hardened one.
NacChainIndices == {0, 1, HardenedKeyStart}

\* The keys tried: private or public, of either network, a master key or
\* the key of an account.
ExtendedKeys ==
    [private : BOOLEAN, net : Nets, path : {<<>>, <<44>>}]

\* ExtendedKey.Child: the key one index down the path; a hardened child
\* cannot be derived from a public key.
Child(key, i) ==
    IF ~key.private /\ i >= HardenedKeyStart
    THEN [err |-> "ErrDeriveHardFromPublic", key |-> key]
    ELSE [err |-> "nil", key |-> [key EXCEPT !.path = Append(key.path, i)]]

NoChain == [xpub |-> [private |-> FALSE, net |-> "none", path |-> <<>>],
            net |-> "none", gapLimit |-> 0, chainIndex |-> 0, addresses |-> <<>>]

\* A variant of NewAddressChain that does not compare the networks.
NewAddressChainAnyNet(xpub, net, gl, cIndex) ==
    IF xpub.private
    THEN [panic |-> "Extended key is private! Only public keys are accepted",
          chain |-> NoChain]
    ELSE IF Child(xpub, cIndex).err # "nil"
    THEN [panic |-> Child(xpub, cIndex).err, chain |-> NoChain]
    ELSE [panic |-> "none",
          chain |-> [xpub |-> Child(xpub, cIndex).key, net |-> net, gapLimit |-> gl,
                     chainIndex |-> cIndex, addresses |-> <<>>]]

\* NewAddressChain: panics for a private key, for a key of another network
\* and when the child cannot be derived; else the empty chain of the child
\* key.
NewAddressChain(xpub, net, gl, cIndex) ==
    IF xpub.private
    THEN [panic |-> "Extended key is private! Only public keys are accepted",
          chain |-> NoChain]
    ELSE IF xpub.net # net
    THEN [panic |-> "xpub does not match provided net", chain |-> NoChain]
    ELSE IF Child(xpub, cIndex).err # "nil"
    THEN [panic |-> Child(xpub, cIndex).err, chain |-> NoChain]
    ELSE [panic |-> "none",
          chain |-> [xpub |-> Child(xpub, cIndex).key, net |-> net, gapLimit |-> gl,
                     chainIndex |-> cIndex, addresses |-> <<>>]]

\* getPubKey and addAddress on a chain: the address of the chain key's
\* child len(addresses).
chainAddAddress(chain) ==
    [chain EXCEPT !.addresses =
        Append(@, [publicKey |-> Child(chain.xpub, Len(chain.addresses)).key,
                   keyPath |-> <<chain.chainIndex, Len(chain.addresses)>>,
                   used |-> FALSE])]

\* The loop of EnsureAddresses on a chain: addAddress, n times.
RECURSIVE chainAddAddresses(_, _)
chainAddAddresses(chain, n) ==
    IF n <= 0 THEN chain ELSE chainAddAddresses(chainAddAddress(chain), n - 1)

NacIdle ==
    /\ nacXpub = NoChain.xpub
    /\ nacNet = "none"
    /\ nacGapLimit = 0
    /\ nacChainIndex = 0
    /\ nacPc = "idle"
    /\ nacRet = [panic |-> "none", chain |-> NoChain]

\* A call of NewAddressChain is about to be made.
InitNac ==
    /\ nacXpub \in ExtendedKeys
    /\ nacNet \in Nets
    /\ nacGapLimit \in 1..MaxGapLimit
    /\ nacChainIndex \in NacChainIndices
    /\ nacPc = "pending"
    /\ nacRet = [panic |-> "none", chain |-> NoChain]

NacOnly == UNCHANGED <<frameVars, chainVars, signVars, xpubVars, commVars, devVars,
                       txVars, ndVars, rdVars, rpVars, soVars,
                        pkVars,
                        ocVars>>

\* The call of NewAddressChain.
NacConstruct ==
    /\ nacPc = "pending"
    /\ nacRet' = NewAddressChain(nacXpub, nacNet, nacGapLimit, nacChainIndex)
    /\ nacPc' = "constructed"
    /\ UNCHANGED <<nacXpub, nacNet, nacGapLimit, nacChainIndex>>
    /\ NacOnly

\* The first EnsureAddresses on the new chain: no address is used yet, so
\* gapLimit addresses are derived.
NacEnsureAddresses ==
    /\ nacPc = "constructed"
    /\ nacRet.panic = "none"
    /\ nacRet' = [nacRet EXCEPT !.chain =
                     chainAddAddresses(@, @.gapLimit - unusedTailCountOf(@.addresses))]
    /\ nacPc' = "ensured"
    /\ UNCHANGED <<nacXpub, nacNet, nacGapLimit, nacChainIndex>>
    /\ NacOnly

(***************************************************************************)
(* The requests of a session operation                                     *)
(*                                                                         *)
(* Every operation hands its requests to Device.send or Device.sendPlain,  *)
(* one after the other.  The outcome of a request is an input: "success",  *)
(* "unexpected" (a reply the operation does not expect), or an error:      *)
(* "initializing" (a device error with code ErrInitializing), "abort" (a   *)
(* device error with code ErrTouchAbort or ErrTouchTimeout) or "other" (an *)
(* error that is no device error).                                         *)
(***************************************************************************)

SoOps == {"Login", "SetPassword", "XPub", "Sign", "Reset", "CreateWallet",
          "RestoreBackup"}
SoErrs == {"initializing", "abort", "other"}
SoOutcomes == {"success", "unexpected"} \cup SoErrs

\* The largest number of batches of a Sign call.
MaxBatches == 2

\* The requests an operation sends when none fails: Login the device info
\* and, for an unlocked bootloader, the re-lock; XPub its request twice;
\* Sign its command twice per batch.
requests(op, bootlock, batches) ==
    CASE op = "Login" -> IF bootlock THEN <<"device">> ELSE <<"device", "bootloader">>
      [] op = "SetPassword" -> <<"password">>
      [] op = "XPub" -> <<"xpub", "xpub">>
      [] op = "Sign" -> [i \in 1..(2 * batches) |-> "sign"]
      [] op = "Reset" -> <<"reset">>
      [] op \in {"CreateWallet", "RestoreBackup"} -> <<"seed">>

\* Whether the operation looks at the reply to its k-th request: signBatch
\* drops the reply to its first send (the echo).
replyChecked(op, k) == ~(op = "Sign" /\ k % 2 = 1)

\* A variant of an operation's step that sends a request again, up to
\* maxPings times, while the device says it is still initializing.
sendRetriesInitializing(op, k, n, sentCount, outcome) ==
    IF outcome = "initializing" /\ sentCount + 1 < maxPings
    THEN [pc |-> "running", k |-> k, err |-> "nil"]
    ELSE IF outcome \in SoErrs
    THEN IF IsErrorAbort(outcome) /\ op \in {"Reset", "RestoreBackup"}
         THEN [pc |-> "returned", k |-> k, err |-> "nil"]
         ELSE [pc |-> "returned", k |-> k, err |-> outcome]
    ELSE IF outcome = "unexpected" /\ replyChecked(op, k)
    THEN [pc |-> "returned", k |-> k, err |-> "Unexpected reply"]
    ELSE IF k = n THEN [pc |-> "returned", k |-> k, err |-> "nil"]
    ELSE [pc |-> "running", k |-> k + 1, err |-> "nil"]

\* What an operation does with the outcome of its k-th request of n, after
\* sentCount requests: an error ends it (Reset and RestoreBackup return no
\* error for an abort), a reply it does not expect ends it, otherwise it
\* goes on to its next request or returns.
sendOnce(op, k, n, sentCount, outcome) ==
    IF outcome \in SoErrs
    THEN IF IsErrorAbort(outcome) /\ op \in {"Reset", "RestoreBackup"}
         THEN [pc |-> "returned", k |-> k, err |-> "nil"]
         ELSE [pc |-> "returned", k |-> k, err |-> outcome]
    ELSE IF outcome = "unexpected" /\ replyChecked(op, k)
    THEN [pc |-> "returned", k |-> k, err |-> "Unexpected reply"]
    ELSE IF k = n THEN [pc |-> "returned", k |-> k, err |-> "nil"]
    ELSE [pc |-> "running", k |-> k + 1, err |-> "nil"]

SoIdle ==
    /\ soOp = "none"
    /\ soBootlock = TRUE
    /\ soBatches = 0
    /\ soPc = "idle"
    /\ soK = 0
    /\ soSent = <<>>
    /\ soErr = "nil"

\* An operation is called on a session that NewDevice returned.
InitSo ==
    /\ soOp \in SoOps
    /\ soBootlock \in BOOLEAN
    /\ soOp # "Login" => soBootlock
    /\ soBatches \in 1..MaxBatches
    /\ soOp # "Sign" => soBatches = 1
    /\ soPc = "running"
    /\ soK = 1
    /\ soSent = <<>>
    /\ soErr = "nil"

SoOnly == UNCHANGED <<frameVars, chainVars, signVars, xpubVars, commVars, devVars,
                      txVars, ndVars, rdVars, rpVars, nacVars, pkVars,
                        ocVars>>

\* The operation sends its next request and acts on the outcome.
SoSend ==
    /\ soPc = "running"
    /\ \E outcome \in SoOutcomes :
          LET plan == requests(soOp, soBootlock, soBatches)
              step == sendOnce(soOp, soK, Len(plan), Len(soSent), outcome)
          IN /\ soSent' = Append(soSent, [req |-> plan[soK], k |-> soK,
                                          outcome |-> outcome])
             /\ soPc' = step.pc
             /\ soK' = step.k
             /\ soErr' = step.err
    /\ UNCHANGED <<soOp, soBootlock, soBatches>>
    /\ SoOnly

(***************************************************************************)
(* sendFrame, packet by packet                                             *)
(*                                                                         *)
(* The message is kept as its length and a packet as its header bytes and  *)
(* the numbers of payload bytes and of filler bytes after them, so that    *)
(* messages past the range of the sequence byte and of the length field    *)
(* are within reach.                                                       *)
(***************************************************************************)

\* The payload bytes of the init packet and of a continuation packet.
initPayload == usbReportSize - 7
contPayload == usbReportSize - 5

\* Message lengths tried: the short ones, the longest with 256 continuation
\* packets and the next, and the first the length field cannot hold.
PkLens ==
    (0..MaxMsgLen)
    \cup {initPayload + 256 * contPayload, initPayload + 256 * contPayload + 1, 65536}

\* The closure `send` of sendFrame on a buffer of `remaining` bytes: the
\* packet it writes.
sendPacket(header, remaining) ==
    LET take == Min(usbReportSize - Len(header), remaining)
    IN  [header |-> header, payload |-> take,
         filler |-> usbReportSize - Len(header) - take]

PkIdle ==
    /\ pkLen = 0
    /\ pkRemaining = 0
    /\ pkSeq = 0
    /\ pkPc = "idle"
    /\ pkWire = <<>>
    /\ pkErr = "nil"

\* The message handed to sendFrame.
InitPk ==
    /\ pkLen \in PkLens
    /\ pkRemaining = pkLen
    /\ pkSeq = 0
    /\ pkPc = "start"
    /\ pkWire = <<>>
    /\ pkErr = "nil"

PkOnly == UNCHANGED <<frameVars, chainVars, signVars, xpubVars, commVars, devVars,
                      txVars, ndVars, rdVars, rpVars, nacVars, soVars, ocVars>>

\* sendFrame up to its loop: nothing is written for an empty message, else
\* the init packet; a failing write ends the call.
PkInitFrame ==
    /\ pkPc = "start"
    /\ IF pkLen = 0
       THEN /\ pkPc' = "returned"
            /\ UNCHANGED <<pkWire, pkRemaining, pkErr>>
       ELSE /\ pkWire' = Append(pkWire, sendPacket(initHeader(pkLen), pkRemaining))
            /\ pkRemaining' = pkRemaining - sendPacket(initHeader(pkLen), pkRemaining).payload
            /\ \E ok \in BOOLEAN :
                  IF ok THEN pkPc' = "loop" /\ pkErr' = pkErr
                  ELSE pkPc' = "returned" /\ pkErr' = "Failed to send message"
    /\ UNCHANGED <<pkLen, pkSeq>>
    /\ PkOnly

\* One iteration of for seq := 0; readBuffer.Len() > 0; seq++.
PkContFrame ==
    /\ pkPc = "loop"
    /\ pkRemaining > 0
    /\ pkWire' = Append(pkWire, sendPacket(contHeader(pkSeq), pkRemaining))
    /\ pkRemaining' = pkRemaining - sendPacket(contHeader(pkSeq), pkRemaining).payload
    /\ \E ok \in BOOLEAN :
          IF ok THEN pkPc' = "loop" /\ pkErr' = pkErr /\ pkSeq' = pkSeq + 1
          ELSE pkPc' = "returned" /\ pkErr' = "Failed to send message" /\ pkSeq' = pkSeq
    /\ UNCHANGED pkLen
    /\ PkOnly

\* The loop is over: return nil.
PkReturn ==
    /\ pkPc = "loop"
    /\ ~(pkRemaining > 0)
    /\ pkPc' = "returned"
    /\ UNCHANGED <<pkLen, pkRemaining, pkSeq, pkWire, pkErr>>
    /\ PkOnly

(***************************************************************************)
(* Concurrent operations on one session                                    *)
(*                                                                         *)
(* Each thread calls one operation of the same Device.  The operation      *)
(* takes no lock of its own: each of its requests is a round trip of       *)
(* SendPlain, which holds communication.mutex from its start to its end.   *)
(***************************************************************************)

\* The operations called: Login on a device whose bootloader is unlocked
\* (info query and re-lock), XPub (two reads), Sign of one batch (echo and
\* signatures), SetPassword (one request).
OcOps ==
    {[op |-> "Login", bootlock |-> FALSE, batches |-> 1],
     [op |-> "XPub", bootlock |-> TRUE, batches |-> 1],
     [op |-> "Sign", bootlock |-> TRUE, batches |-> 1],
     [op |-> "SetPassword", bootlock |-> TRUE, batches |-> 1]}

NoOp == [op |-> "none", bootlock |-> TRUE, batches |-> 0]

\* The outcomes of a round trip tried.
OcOutcomes == {"success", "other"}

\* The requests of the operation thread t called.
ocRequests(t) == requests(ocOp[t].op, ocOp[t].bootlock, ocOp[t].batches)

OcIdle ==
    /\ ocMutex = 0
    /\ ocPc = <<>>
    /\ ocOp = <<>>
    /\ ocK = <<>>
    /\ ocErr = <<>>
    /\ ocWire = <<>>

InitOc ==
    /\ ocMutex = 0
    /\ ocPc = [t \in Threads |-> "idle"]
    /\ ocOp = [t \in Threads |-> NoOp]
    /\ ocK = [t \in Threads |-> 0]
    /\ ocErr = [t \in Threads |-> "nil"]
    /\ ocWire = <<>>

OcOnly == UNCHANGED <<frameVars, chainVars, signVars, xpubVars, commVars, devVars,
                      txVars, ndVars, rdVars, rpVars, nacVars, soVars, pkVars>>

\* A thread calls an operation, which comes to its first request.
OcCall(t) ==
    /\ ocPc[t] = "idle"
    /\ \E o \in OcOps : ocOp' = [ocOp EXCEPT ![t] = o]
    /\ ocK' = [ocK EXCEPT ![t] = 1]
    /\ ocPc' = [ocPc EXCEPT ![t] = "lock"]
    /\ UNCHANGED <<ocMutex, ocErr, ocWire>>
    /\ OcOnly

\* SendPlain: communication.mutex.Lock()
OcLock(t) ==
    /\ ocPc[t] = "lock"
    /\ ocMutex = 0
    /\ ocMutex' = t
    /\ ocPc' = [ocPc EXCEPT ![t] = "trip"]
    /\ UNCHANGED <<ocOp, ocK, ocErr, ocWire>>
    /\ OcOnly

\* SendPlain: the request is written and its reply read.
OcRoundTrip(t) ==
    /\ ocPc[t] = "trip"
    /\ ocWire' = Append(ocWire, [thr |-> t, k |-> ocK[t], req |-> ocRequests(t)[ocK[t]]])
    /\ \E outcome \in OcOutcomes :
          LET step == sendOnce(ocOp[t].op, ocK[t], Len(ocRequests(t)), ocK[t] - 1, outcome)
          IN /\ ocK' = [ocK EXCEPT ![t] = IF step.pc = "running" THEN step.k ELSE 0]
             /\ ocErr' = [ocErr EXCEPT ![t] = step.err]
    /\ ocPc' = [ocPc EXCEPT ![t] = "unlock"]
    /\ UNCHANGED <<ocMutex, ocOp>>
    /\ OcOnly

\* SendPlain returns (the deferred Unlock runs); the operation goes on to
\* its next request or returns.
OcUnlock(t) ==
    /\ ocPc[t] = "unlock"
    /\ ocMutex' = 0
    /\ ocPc' = [ocPc EXCEPT ![t] = IF ocK[t] > 0 THEN "lock" ELSE "done"]
    /\ UNCHANGED <<ocOp, ocK, ocErr, ocWire>>
    /\ OcOnly

(***************************************************************************)
(* Specifications                                                          *)
(***************************************************************************)

NextFrame == SendFrame \/ ReadFrame
InitFrameSpec == InitFrame /\ ChainIdle /\ SignIdle /\ XPubIdle /\ CommIdle /\ DevIdle /\ TxIdle /\ NdIdle /\ RdIdle /\ RpIdle /\ NacIdle /\ SoIdle /\ PkIdle /\ OcIdle
SpecFrame == InitFrameSpec /\ [][NextFrame]_vars

NextChain == EnsureAddresses \/ MarkUsed \/ GetUnused
InitChainSpec == FrameIdle /\ InitChain /\ SignIdle /\ XPubIdle /\ CommIdle /\ DevIdle /\ TxIdle /\ NdIdle /\ RdIdle /\ RpIdle /\ NacIdle /\ SoIdle /\ PkIdle /\ OcIdle
SpecChain == InitChainSpec /\ [][NextChain]_vars

NextSign == SignCall \/ SignBatchEcho \/ SignBatchSigs \/ SignReturn
InitSignSpec == FrameIdle /\ ChainIdle /\ InitSign /\ XPubIdle /\ CommIdle /\ DevIdle /\ TxIdle /\ NdIdle /\ RdIdle /\ RpIdle /\ NacIdle /\ SoIdle /\ PkIdle /\ OcIdle
SpecSign == InitSignSpec /\ [][NextSign]_vars

NextXPub == XPubFirst \/ XPubSecond
InitXPubSpec == FrameIdle /\ ChainIdle /\ SignIdle /\ InitXPub /\ CommIdle /\ DevIdle /\ TxIdle /\ NdIdle /\ RdIdle /\ RpIdle /\ NacIdle /\ SoIdle /\ PkIdle /\ OcIdle
SpecXPub == InitXPubSpec /\ [][NextXPub]_vars

NextComm ==
    \E t \in Threads :
        CommCall(t) \/ CommLock(t) \/ CommWrite(t) \/ CommRead(t) \/ CommReturn(t)
InitCommSpec == FrameIdle /\ ChainIdle /\ SignIdle /\ XPubIdle /\ InitComm /\ DevIdle /\ TxIdle /\ NdIdle /\ RdIdle /\ RpIdle /\ NacIdle /\ SoIdle /\ PkIdle /\ OcIdle
SpecComm == InitCommSpec /\ [][NextComm]_vars

\* The same, when device.Write and device.Read return, a round trip that
\* ended returns, and a thread waiting for the free mutex gets it.
SpecCommLive ==
    /\ SpecComm
    /\ \A t \in Threads :
          /\ WF_vars(CommLock(t))
          /\ WF_vars(CommWrite(t))
          /\ WF_vars(CommRead(t))
          /\ WF_vars(CommReturn(t))

NextTx == TxComputeHash \/ TxSign \/ TxAssemble \/ TxValidate
InitTxSpec ==
    FrameIdle /\ ChainIdle /\ SignIdle /\ XPubIdle /\ CommIdle /\ DevIdle /\ InitTx
    /\ NdIdle /\ RdIdle /\ RpIdle /\ NacIdle /\ SoIdle /\ PkIdle /\ OcIdle
SpecTx == InitTxSpec /\ [][NextTx]_vars

NextNd == NdCheckVersion \/ NdPing \/ NdFinish
InitNdSpec ==
    FrameIdle /\ ChainIdle /\ SignIdle /\ XPubIdle /\ CommIdle /\ DevIdle /\ TxIdle
    /\ InitNd /\ RdIdle /\ RpIdle /\ NacIdle /\ SoIdle /\ PkIdle /\ OcIdle
SpecNd == InitNdSpec /\ [][NextNd]_vars

NextRd == ReadIncoming
InitRdSpec ==
    FrameIdle /\ ChainIdle /\ SignIdle /\ XPubIdle /\ CommIdle /\ DevIdle /\ TxIdle
    /\ NdIdle /\ InitRd /\ RpIdle /\ NacIdle /\ SoIdle /\ PkIdle /\ OcIdle
SpecRd == InitRdSpec /\ [][NextRd]_vars

NextRp == SendPlainCall \/ SendEncryptCall
InitRpSpec ==
    FrameIdle /\ ChainIdle /\ SignIdle /\ XPubIdle /\ CommIdle /\ DevIdle /\ TxIdle
    /\ NdIdle /\ RdIdle /\ InitRp /\ NacIdle /\ SoIdle /\ PkIdle /\ OcIdle
SpecRp == InitRpSpec /\ [][NextRp]_vars

NextNac == NacConstruct \/ NacEnsureAddresses
InitNacSpec ==
    FrameIdle /\ ChainIdle /\ SignIdle /\ XPubIdle /\ CommIdle /\ DevIdle /\ TxIdle
    /\ NdIdle /\ RdIdle /\ RpIdle /\ InitNac /\ SoIdle /\ PkIdle /\ OcIdle
SpecNac == InitNacSpec /\ [][NextNac]_vars

NextSo == SoSend
InitSoSpec ==
    FrameIdle /\ ChainIdle /\ SignIdle /\ XPubIdle /\ CommIdle /\ DevIdle /\ TxIdle
    /\ NdIdle /\ RdIdle /\ RpIdle /\ NacIdle /\ InitSo /\ PkIdle /\ OcIdle
SpecSo == InitSoSpec /\ [][NextSo]_vars

NextPk == PkInitFrame \/ PkContFrame \/ PkReturn
InitPkSpec ==
    FrameIdle /\ ChainIdle /\ SignIdle /\ XPubIdle /\ CommIdle /\ DevIdle /\ TxIdle
    /\ NdIdle /\ RdIdle /\ RpIdle /\ NacIdle /\ SoIdle /\ InitPk /\ OcIdle
SpecPk == InitPkSpec /\ [][NextPk]_vars

NextOc == \E t \in Threads : OcCall(t) \/ OcLock(t) \/ OcRoundTrip(t) \/ OcUnlock(t)
InitOcSpec ==
    FrameIdle /\ ChainIdle /\ SignIdle /\ XPubIdle /\ CommIdle /\ DevIdle /\ TxIdle
    /\ NdIdle /\ RdIdle /\ RpIdle /\ NacIdle /\ SoIdle /\ PkIdle /\ InitOc
SpecOc == InitOcSpec /\ [][NextOc]_vars

Next == SetPassword \/ Login \/ SetName \/ CreateWallet \/ RestoreBackup \/ Reset
Init == FrameIdle /\ ChainIdle /\ SignIdle /\ XPubIdle /\ CommIdle /\ InitDev /\ TxIdle /\ NdIdle /\ RdIdle /\ RpIdle /\ NacIdle /\ SoIdle /\ PkIdle /\ OcIdle
Spec == Init /\ [][Next]_vars

\* The device session with Close among its operations (those that take no
\* reply apart from the outcome of their request).
NextClose ==
    Close \/ SetPassword \/ SetName \/ CreateWallet \/ RestoreBackup \/ Reset
SpecClose == Init /\ [][NextClose]_vars

(***************************************************************************)
(* Properties                                                              *)
(***************************************************************************)

\* C1: framing round trip. After sendFrame wrote a message of any length
\* 0..MaxMsgLen to the loopback transport without a write error, readFrame
\* returns no error and exactly the bytes of the message.
FramingRoundTrip ==
    (framePc = "read" /\ sendErr = "nil") =>
        (readRet.err = "nil" /\ readRet.data = msg)

\* C2: gap-limit invariant after sync. Right after EnsureAddresses returned,
\* the chain ends in exactly gapLimit unused addresses: the last gapLimit
\* addresses are unused and the one before them, if any, is used.
GapLimitAfterEnsure ==
    chainLastOp = "EnsureAddresses" =>
        /\ Len(addresses) >= gapLimit
        /\ \A i \in (Len(addresses) - gapLimit + 1)..Len(addresses) :
              ~addresses[i].used
        /\ Len(addresses) > gapLimit => addresses[Len(addresses) - gapLimit].used

\* C2 witness: EnsureAddresses has just appended to a chain with a used
\* address, making it longer than the gap limit.
GapLimitAfterEnsureWitness ==
    /\ chainLastOp = "EnsureAddresses"
    /\ ensureRet # <<>>
    /\ Len(addresses) > gapLimit
    /\ \E i \in 1..Len(addresses) : addresses[i].used

\* C3: whenever GetUnused returns an address, no address of the chain with
\* a smaller index is unused.
GetUnusedLowestIndex ==
    (chainLastOp = "GetUnused" /\ ~getUnusedRet.panic) =>
        \A i \in 1..Len(addresses) :
            addresses[i].index < getUnusedRet.index => addresses[i].used

\* The pairs of batch k (1, 2, ...) of a call with n pairs.
BatchLo(k) == signatureBatchSize * (k - 1) + 1
BatchHi(k, n) == Min(signatureBatchSize * k, n)
\* ceil(n / 15)
BatchCount(n) == (n + signatureBatchSize - 1) \div signatureBatchSize

\* The signing command for the pairs lo..hi of the call's arguments.
CmdForPairs(lo, hi) ==
    [sign |-> [data |-> [t \in 1..(hi - lo + 1) |->
                  [hash |-> hexEncode(signatureHashes[lo + t - 1]),
                   keypath |-> keyPaths[lo + t - 1]]]]]

\* The signatures of the entries of the replies from the k-th on, in order.
RECURSIVE RepliesFrom(_)
RepliesFrom(k) ==
    IF k > Len(signReplies) THEN <<>>
    ELSE [t \in 1..Len(signReplies[k].sign) |->
             [R |-> SetString16(signReplies[k].sign[t].hexSig.r).val,
              S |-> SetString16(signReplies[k].sign[t].hexSig.s).val]]
         \o RepliesFrom(k + 1)

\* C4: sign batching. Once Sign is past its argument checks, the requests
\* sent so far are, in order, the commands of batches 1, 2, ..., each sent
\* twice in a row and each covering the next at most 15 consecutive pairs;
\* when Sign returns without error it has sent exactly 2 * ceil(n/15)
\* requests and returns the concatenation of the batch replies in order.
SignBatching ==
    LET n == Len(signatureHashes) IN
    /\ signPc \in {"loop", "echoed", "error", "done"} =>
          /\ Len(signLog) <= 2 * BatchCount(n)
          /\ \A m \in 1..Len(signLog) :
                /\ signLog[m] = CmdForPairs(BatchLo((m + 1) \div 2),
                                            BatchHi((m + 1) \div 2, n))
                /\ Len(signLog[m].sign.data) <= signatureBatchSize
    /\ signPc = "echoed" => Len(signLog) % 2 = 1
    /\ signPc \in {"loop", "done"} => Len(signLog) % 2 = 0
    /\ signPc = "done" =>
          /\ Len(signLog) = 2 * BatchCount(n)
          /\ Len(signReplies) = BatchCount(n)
          /\ signRet.err = "nil"
          /\ signRet.sigs = RepliesFrom(1)

\* C4 witness: Sign returned the 30 signatures of 30 pairs after two batches
\* (four requests).
SignBatchingWitness ==
    /\ signPc = "done"
    /\ Len(signatureHashes) = 30
    /\ Len(signLog) = 4
    /\ Len(signRet.sigs) = 30

\* An entry of a 'sign' list that is a map with a 'sig' string of exactly
\* 128 hex characters.
IsHex128(sig) ==
    /\ sig.isMap
    /\ sig.hasSig
    /\ sig.hexSig.len = sigHexLen
    /\ sig.hexSig.r.cls = "hex"
    /\ sig.hexSig.s.cls = "hex"

\* C5: Sign is all-or-nothing. If a send failed, or a batch reply lacks the
\* 'sign' list, or some entry of a reply is not a string of exactly 128 hex
\* characters, Sign has returned an error with no signatures and the failing
\* batch's request is the last one sent.
SignAllOrNothing ==
    /\ (signRet.returned /\ signRet.err # "nil") => signRet.sigs = <<>>
    /\ \A k \in 1..Len(signReplies) :
          (\/ ~signReplies[k].hasSign
           \/ \E t \in 1..Len(signReplies[k].sign) : ~IsHex128(signReplies[k].sign[t]))
          => /\ signPc = "error"
             /\ signRet.returned
             /\ signRet.err # "nil"
             /\ signRet.sigs = <<>>
             /\ Len(signLog) = 2 * k

\* C6: with hash and key-path lists of different lengths, or an empty hash
\* list, Sign fails (it panics) and no request has been sent to the device.
SignRejectsBadArgs ==
    (/\ signPc # "start"
     /\ (Len(signatureHashes) # Len(keyPaths) \/ Len(signatureHashes) = 0))
    => /\ signPc = "panic"
       /\ signLog = <<>>
       /\ ~signRet.returned

\* C6 witness: Sign panicked on an empty hash list, nothing sent.
SignRejectsBadArgsWitness ==
    /\ signPc = "panic"
    /\ Len(signatureHashes) = 0
    /\ Len(keyPaths) = 0
    /\ signLog = <<>>

\* The reply of a round trip made getXPub succeed.
XPubReadOk(entry) == getXPub(entry.reply).err = "nil"

\* C7: inconsistent-xpub detection. When XPub has returned: if its first
\* query succeeded it made a second query for the same path; it returns a
\* key only after two successful queries whose replies are equal, and then
\* that key; and when the two replies differ it fails with the
\* inconsistency error and returns no key.
XPubTwoReads ==
    xpubRet.returned =>
        /\ Len(xpubLog) >= 1
        /\ \A m \in 1..Len(xpubLog) :
              xpubLog[m].xpub = xpubPath /\ xpubLog[m].password = xpubPassword
        /\ XPubReadOk(xpubLog[1]) => Len(xpubLog) = 2
        /\ ~XPubReadOk(xpubLog[1]) => (Len(xpubLog) = 1 /\ ~xpubRet.key.valid)
        /\ xpubRet.key.valid =>
              /\ xpubRet.err = "nil"
              /\ Len(xpubLog) = 2
              /\ XPubReadOk(xpubLog[1]) /\ XPubReadOk(xpubLog[2])
              /\ xpubLog[1].reply.xpub = xpubLog[2].reply.xpub
              /\ KeyString(xpubRet.key) = xpubLog[1].reply.xpub
        /\ (/\ Len(xpubLog) = 2
            /\ XPubReadOk(xpubLog[1]) /\ XPubReadOk(xpubLog[2])
            /\ xpubLog[1].reply.xpub # xpubLog[2].reply.xpub)
           => /\ xpubRet.err = "Critical: the device returned inconsistent xpubs"
              /\ ~xpubRet.key.valid
        /\ (/\ Len(xpubLog) = 2
            /\ XPubReadOk(xpubLog[1]) /\ XPubReadOk(xpubLog[2])
            /\ xpubLog[1].reply.xpub = xpubLog[2].reply.xpub)
           => /\ xpubRet.err = "nil"
              /\ xpubRet.key.valid

\* C7 witness: the device answered the two queries with different keys and
\* XPub returned the inconsistency error.
XPubTwoReadsWitness ==
    /\ xpubRet.returned
    /\ Len(xpubLog) = 2
    /\ xpubLog[1].reply.xpub = "xpubA"
    /\ xpubLog[2].reply.xpub = "xpubB"
    /\ xpubRet.err = "Critical: the device returned inconsistent xpubs"

\* The threads inside a round trip (between Lock and Unlock).
InFlight ==
    {t \in DOMAIN thrPc : thrPc[t] \in {"write", "read", "returnErr", "returnOk", "panic"}}

\* C8: at most one request in flight. At most one thread is inside a round
\* trip; the writes and reads of one thread's round trip are contiguous on
\* the transport, its writes before its reads; so every read directly
\* follows a write or read of the same thread's round trip.
OneRequestInFlight ==
    /\ Cardinality(InFlight) <= 1
    /\ \A a, c \in DOMAIN wire :
          (a < c /\ wire[a].thr = wire[c].thr) => wire[c - 1].thr = wire[c].thr
    /\ \A a, b \in DOMAIN wire :
          (a < b /\ wire[a].thr = wire[b].thr /\ wire[a].op = "read")
          => wire[b].op = "read"
    /\ \A b \in DOMAIN wire :
          wire[b].op = "read" => (b > 1 /\ wire[b - 1].thr = wire[b].thr)

\* C8 witness: two threads have each completed a round trip of several
\* packets while the other was calling too.
OneRequestInFlightWitness ==
    /\ \A t \in {1, 2} : thrPc[t] = "done" /\ thrCall[t].writes = 2
    /\ Len(wire) >= 8

\* C9: Status() follows the precedence bootloader > seeded > logged-in >
\* initialized > uninitialized: it is Bootloader exactly when the device was
\* constructed in bootloader mode, whatever the other fields, else Seeded
\* exactly when seeded, else LoggedIn exactly when the password is
\* non-empty, else Initialized exactly when initialized, else Uninitialized.
StatusPrecedence ==
    devLastOp.op # "none" =>
        /\ Status = "bootloader" <=> bootloaderMode
        /\ ~bootloaderMode =>
              /\ Status = "seeded" <=> seeded
              /\ Status = "logged_in" <=> (~seeded /\ password # "")
              /\ Status = "initialized" <=> (~seeded /\ password = "" /\ initialized)
              /\ Status = "uninitialized" <=>
                    (~seeded /\ password = "" /\ ~initialized)

\* C9 witness: a seeded session with a password and the initialized flag
\* set, not in bootloader mode (every lower rule applies, Seeded wins).
StatusPrecedenceWitness ==
    /\ ~bootloaderMode
    /\ seeded /\ password # "" /\ initialized
    /\ Status = "seeded"

\* The last operation changed Status() to s.
Became(s) == devLastOp.op # "none" /\ Status = s /\ devLastOp.before # s

ResetContract ==
    (devLastOp.op = "Reset" /\ devLastOp.before # "bootloader") =>
        /\ devLastOp.outcome = "success" =>
              /\ devLastOp.ret = TRUE /\ devLastOp.err = "nil"
              /\ password = "" /\ ~seeded /\ ~initialized
              /\ Status = "uninitialized"
        /\ devLastOp.outcome = "abort" =>
              /\ devLastOp.ret = FALSE /\ devLastOp.err = "nil"
              /\ Fields = devLastOp.beforeF
        /\ devLastOp.outcome \notin {"success", "abort"} =>
              /\ devLastOp.ret = FALSE /\ devLastOp.err # "nil"
              /\ Fields = devLastOp.beforeF

\* C11 witness: a successful Reset of a seeded, initialized session.
ResetContractWitness ==
    /\ devLastOp.op = "Reset"
    /\ devLastOp.outcome = "success"
    /\ devLastOp.before = "seeded"
    /\ devLastOp.beforeF.initialized
    /\ devLastOp.beforeF.password # ""
    /\ Status = "uninitialized"

\* C12: Login success. When the device-info query succeeded, the session
\* holds the given password and the seeded flag the device reported; if
\* the device reported bootlock = false the requests Login sent are the
\* query and then, directly after it, the bootloader lock command; if it
\* reported bootlock = true, the query only.
LoginSuccess ==
    (devLastOp.op = "Login" /\ devLastOp.info.err = "nil") =>
        /\ password = devLastOp.arg
        /\ seeded = devLastOp.info.seeded
        /\ ~devLastOp.info.bootlock => devLastOp.sent = <<"device", "bootloader">>
        /\ devLastOp.info.bootlock => devLastOp.sent = <<"device">>

\* C12 witness: a Login on an unlocked, seeded device whose lock command
\* succeeded.
LoginSuccessWitness ==
    /\ devLastOp.op = "Login"
    /\ devLastOp.info.err = "nil"
    /\ ~devLastOp.info.bootlock
    /\ devLastOp.info.seeded
    /\ devLastOp.arg = "pw1"
    /\ devLastOp.err = "nil"
    /\ devLastOp.sent = <<"device", "bootloader">>

\* Positions in s where the attempts phrase follows a digit.
PhraseAfterDigit(s) ==
    {p \in 2..Len(s) : s[p - 1] \in Digits /\ HasPrefixAt(s, attemptsPhrase, p)}

\* C13: Login failure. When the device-info query fails with a device
\* error, Login returns that error; remainingAttempts is the number N
\* standing in front of (the first) "attempts remain before" in the error
\* message, empty when the message has no such number; needsLongTouch is
\* true exactly when the message contains "next"; the password and the
\* seeded flag are unchanged and no statusChanged event fired.
LoginFailure ==
    (devLastOp.op = "Login" /\ IsDeviceError(devLastOp.info.err)) =>
        LET m == devLastOp.info.msg
            r == devLastOp.login.remainingAttempts
        IN /\ devLastOp.err = devLastOp.info.err
           /\ IF PhraseAfterDigit(m) = {} THEN r = <<>>
              ELSE LET p == CHOOSE a \in PhraseAfterDigit(m) :
                                \A b \in PhraseAfterDigit(m) : a <= b
                   IN /\ Len(r) >= 1
                      /\ \A k \in 1..Len(r) : r[k] \in Digits
                      /\ r = SubSeq(m, p - Len(r), p - 1)
                      /\ (p - Len(r) = 1 \/ m[p - Len(r) - 1] \notin Digits)
           /\ devLastOp.login.needsLongTouch
                <=> \E i \in 1..(Len(m) - 3) : SubSeq(m, i, i + 3) = nextWord
           /\ Fields = devLastOp.beforeF
           /\ devLastOp.events = 0

\* C13 witness: a failed Login, after an earlier successful one, whose
\* error message names the remaining attempts and the long touch.
LoginFailureWitness ==
    /\ devLastOp.op = "Login"
    /\ devLastOp.info.err = "device"
    /\ devLastOp.login.remainingAttempts = <<"4">>
    /\ devLastOp.login.needsLongTouch
    /\ devLastOp.beforeF.password = "pw1"
    /\ devLastOp.arg = "pw2"

\* Whether the signing backend has been called.
SignRequested == \E k \in 1..Len(txLog) : txLog[k].ev = "sign"

\* Whether no input has had its signature script or witness replaced.
NoInputModified == \A i \in 1..Len(txIn) : txIn[i].script = NoScript

\* C14: SignTransaction verifies the canonical ordering before signing:
\* for a transaction whose inputs or outputs are not canonically ordered
\* no signing request is ever made, and the call does not return nil.
OrderingCheckedBeforeSign ==
    ~IsSorted(txIn, txOut) =>
        /\ ~SignRequested
        /\ txPc = "returned" => txRet # "nil"

\* C15: when some input's outpoint has no entry in previousOutputs, the
\* signing backend is never called, no input's script or witness is
\* modified, and the call does not return nil.
MissingPreviousOutput ==
    (\E i \in 1..Len(txIn) : txIn[i].outpoint \notin DOMAIN previousOutputs) =>
        /\ ~SignRequested
        /\ NoInputModified
        /\ txPc = "returned" => txRet # "nil"

\* C15 witness: the call ended on the second input, whose spent output is
\* not known, after the hash of the first input was computed.
MissingPreviousOutputWitness ==
    /\ txPc = "returned"
    /\ Len(txIn) = 2
    /\ txIn[1].outpoint \in DOMAIN previousOutputs
    /\ txIn[2].outpoint \notin DOMAIN previousOutputs
    /\ txLog = <<TxEvent("hash", 1)>>
    /\ txRet = "panic: output/input mismatch"

\* C16: SignTransaction returns nil only if the backend returned exactly
\* one signature per input, the assembled transaction is canonically
\* ordered, and every input verifies against its spent output; after a
\* backend reply with another number of signatures the call never returns
\* nil.
SuccessMeansValidated ==
    /\ (txPc = "returned" /\ txRet = "nil") =>
          /\ Len(txSigs) = Len(txIn)
          /\ IsSorted(txIn, txOut)
          /\ \A i \in 1..Len(txIn) :
                /\ txIn[i].outpoint \in DOMAIN previousOutputs
                /\ ScriptVerifies(txIn, txOut, previousOutputs, i)
    /\ (txPc = "returned" /\ SignRequested /\ Len(txSigs) # Len(txIn)) =>
          txRet # "nil"

\* C16 witness: a transaction with two inputs was signed and validated.
SuccessMeansValidatedWitness ==
    /\ txPc = "returned"
    /\ txRet = "nil"
    /\ Len(txIn) = 2

\* C17: no partial commit. When the call does not succeed, no input has
\* had its signature script or witness replaced.
NoPartialCommit ==
    (txPc = "returned" /\ txRet # "nil") => NoInputModified

\* C18: SignTransaction is a single pass. The backend's Sign is called at
\* most once, after a hash was computed for each input in order, with the
\* i-th hash and the i-th key path those of input i; the inputs are
\* assembled after Sign returned, in order, input i getting the i-th
\* signature; validation runs after all inputs are assembled; nothing
\* follows validation.
SinglePass ==
    LET n == Len(txIn)
        signAt == {k \in 1..Len(txLog) : txLog[k].ev = "sign"}
    IN /\ Cardinality(signAt) <= 1
       /\ \A k \in 1..Len(txLog) :
             /\ txLog[k].ev = "hash" => (k <= n /\ txLog[k].i = k)
             /\ txLog[k].ev = "sign" =>
                   /\ k = n + 1
                   /\ Len(txHashes) = n /\ Len(txKeyPaths) = n
                   /\ \A i \in 1..n :
                         LET spent == previousOutputs[txIn[i].outpoint]
                         IN /\ txHashes[i] = SigHash(txIn, txOut, i, spent)
                            /\ txKeyPaths[i] = spent.keyPath
             /\ txLog[k].ev = "assemble" =>
                   /\ k > n + 1 /\ k <= 2 * n + 1
                   /\ txLog[k].i = k - (n + 1)
                   /\ txIn[txLog[k].i].script.signed
                   /\ txIn[txLog[k].i].script.signature = txSigs[txLog[k].i]
             /\ txLog[k].ev = "validate" => (k = 2 * n + 2 /\ k = Len(txLog))
       /\ \A i \in 1..n :
             txIn[i].script # NoScript =>
                \E k \in 1..Len(txLog) : txLog[k] = TxEvent("assemble", i)

\* C18 witness: a call on two inputs ran through all four phases.
SinglePassWitness ==
    /\ txPc = "returned"
    /\ Len(txIn) = 2
    /\ txLog = <<TxEvent("hash", 1), TxEvent("hash", 2), TxEvent("sign", 0),
                 TxEvent("assemble", 1), TxEvent("assemble", 2),
                 TxEvent("validate", 0)>>

\* A version as one number (fields below 100).
VersionNumber(v) == 10000 * v[1] + 100 * v[2] + v[3]

\* Whether the version lies in the supported half-open range of the mode.
InSupportedRange ==
    IF ndBootloader
    THEN /\ VersionNumber(ndBootloaderVersions.lowest) <= VersionNumber(ndVersion)
         /\ VersionNumber(ndVersion) < VersionNumber(ndBootloaderVersions.lowestNon)
    ELSE /\ 20202 <= VersionNumber(ndVersion)
         /\ VersionNumber(ndVersion) < 40000

\* C19: NewDevice accepts a firmware version v only if 2.2.2 <= v < 4.0.0
\* (the bootloader version, in bootloader mode, only if it is in the
\* bootloader's half-open range); for a version outside the range it
\* returns an error and no device, and no message is sent to the device;
\* a version inside the range is not refused for its version.
VersionGate ==
    ndPc # "idle" =>
        /\ ~InSupportedRange =>
              /\ ndPings = <<>>
              /\ ndPc = "returned" =>
                    (~ndRet.device /\ ndRet.err = "version is not supported")
        /\ (ndPc = "returned" /\ ndRet.device) => InSupportedRange
        /\ (ndPc = "returned" /\ InSupportedRange) =>
              ndRet.err # "version is not supported"

\* C19 witness: firmware 4.0.0 was refused.
VersionGateWitness ==
    /\ ndPc = "returned"
    /\ ~ndBootloader
    /\ ndVersion = <<4, 0, 0>>
    /\ ~ndRet.device
    /\ ndPings = <<>>

\* C20: the readiness probe. At most 20 pings are sent; a ping other than
\* the first is sent only after a ping that failed with the
\* still-initializing error; a ping failing with another error ends the
\* construction with that error; a ping that succeeds ends the probe and
\* the device is returned; in bootloader mode no ping is sent.
ReadinessProbe ==
    LET n == Len(ndPings)
    IN /\ n <= 20
       /\ \A k \in 2..n : ndPings[k - 1] = "initializing"
       /\ ndBootloader => n = 0
       /\ (ndPc = "returned" /\ n > 0) =>
             /\ ndPings[n] \in {"device", "other"} =>
                   (~ndRet.device /\ ndRet.err = ndPings[n])
             /\ ndPings[n] \in {"password", "false"} =>
                   /\ ndRet.device /\ ndRet.err = "nil"
                   /\ initialized <=> ndPings[n] = "password"
             /\ ndPings[n] = "initializing" => n = 20
       /\ (n > 0 /\ ndPings[n] # "initializing") => ndPc \in {"finish", "returned"}

\* C20 witness: the device answered the fourth ping, after three pings
\* that found it still initializing.
ReadinessProbeWitness ==
    /\ ndPc = "returned"
    /\ ndPings = <<"initializing", "initializing", "initializing", "password">>
    /\ ndRet.device
    /\ initialized

\* C28: EnsureAddresses reports only what it added and is idempotent once
\* the invariant holds. Every call leaves the chain it found as a prefix
\* and returns exactly the addresses it appended, in index order; a call
\* made when the tail already has gapLimit unused addresses appends
\* nothing and returns an empty list.
EnsureReturnsAdded ==
    [][chainLastOp' = "EnsureAddresses" =>
          /\ Len(addresses') >= Len(addresses)
          /\ SubSeq(addresses', 1, Len(addresses)) = addresses
          /\ Len(ensureRet') = Len(addresses') - Len(addresses)
          /\ \A k \in 1..Len(ensureRet') :
                /\ ensureRet'[k] = addresses'[Len(addresses) + k]
                /\ ensureRet'[k].index = Len(addresses) + k - 1
          /\ unusedTailCount = gapLimit =>
                (addresses' = addresses /\ ensureRet' = <<>>)]_vars

\* C28 witness: a chain that grew past its first fill, and a call of
\* EnsureAddresses on it that found the tail full and returned nothing.
EnsureReturnsAddedWitness ==
    /\ chainLastOp = "EnsureAddresses"
    /\ ensureRet = <<>>
    /\ Len(addresses) > gapLimit
    /\ unusedTailCount = gapLimit

\* C29: the chain is append-only and strictly sequential. In every state
\* the address at position i (from 0) was derived from child index i with
\* key path chainIndex/i, and every step keeps the chain it found as a
\* prefix: no address is removed, replaced by another or reordered.
ChainAppendOnly ==
    /\ [](\A i \in 1..Len(addresses) :
             /\ addresses[i].index = i - 1
             /\ addresses[i].keyPath = <<chainIndex, i - 1>>)
    /\ [][/\ Len(addresses') >= Len(addresses)
          /\ \A i \in 1..Len(addresses) :
                /\ addresses'[i].index = addresses[i].index
                /\ addresses'[i].keyPath = addresses[i].keyPath]_vars

\* C29 witness: a chain filled twice, with a used address in the middle.
ChainAppendOnlyWitness ==
    /\ chainIndex = 1
    /\ Len(addresses) = 5
    /\ addresses[2].used
    /\ addresses[5].keyPath = <<1, 4>>

\* C30: GetUnused fails loudly whenever the number of unused addresses at
\* the tail differs from gapLimit: it panics and returns no address.
GetUnusedPanics ==
    (chainLastOp = "GetUnused" /\ unusedTailCount # gapLimit) =>
        (getUnusedRet.panic /\ getUnusedRet.index = -1)

\* C30 witness: GetUnused was called after an address of the full tail was
\* marked used and before the next EnsureAddresses.
GetUnusedPanicsWitness ==
    /\ chainLastOp = "GetUnused"
    /\ Len(addresses) >= gapLimit
    /\ addresses[Len(addresses)].used
    /\ getUnusedRet.panic

\* C25: RestoreBackup. When the seed command succeeds it returns
\* (true, nil) and the session is seeded; when the device reports a user
\* abort or a touch timeout it returns (false, nil), the fields are
\* unchanged and no statusChanged event fires; any other failure returns
\* (false, error), the fields unchanged.
RestoreBackupContract ==
    devLastOp.op = "RestoreBackup" =>
        /\ devLastOp.outcome = "success" =>
              /\ devLastOp.ret = TRUE /\ devLastOp.err = "nil"
              /\ seeded
              /\ password = devLastOp.beforeF.password
              /\ initialized = devLastOp.beforeF.initialized
        /\ devLastOp.outcome = "abort" =>
              /\ devLastOp.ret = FALSE /\ devLastOp.err = "nil"
              /\ Fields = devLastOp.beforeF
              /\ devLastOp.events = 0
        /\ devLastOp.outcome \notin {"success", "abort"} =>
              /\ devLastOp.ret = FALSE /\ devLastOp.err # "nil"
              /\ Fields = devLastOp.beforeF

\* C25 witness: the user aborted a RestoreBackup on a logged-in session
\* that held no wallet.
RestoreBackupContractWitness ==
    /\ devLastOp.op = "RestoreBackup"
    /\ devLastOp.outcome = "abort"
    /\ devLastOp.before = "logged_in"
    /\ ~seeded

\* C26: name validation is local. SetName and CreateWallet called with a
\* name that is empty, longer than 31 characters or holds a character
\* outside [0-9a-zA-Z-_ ] return an error, send no request to the device
\* and leave the session as it was.
NameValidatedLocally ==
    (/\ devLastOp.op \in {"SetName", "CreateWallet"}
     /\ \/ devLastOp.arg.len = 0
        \/ devLastOp.arg.len > 31
        \/ ~devLastOp.arg.charsOk) =>
        /\ devLastOp.err # "nil"
        /\ devLastOp.sent = <<>>
        /\ Fields = devLastOp.beforeF
        /\ devLastOp.events = 0

\* C26 witness: SetName was refused a name of 32 good characters.
NameValidatedLocallyWitness ==
    /\ devLastOp.op = "SetName"
    /\ devLastOp.arg = [len |-> 32, charsOk |-> TRUE]
    /\ devLastOp.err = "Invalid device name"

\* C27: closing a session is terminal and safe to repeat. No operation
\* called after Close sends a request to the transport; a call of Close
\* on a closed session does not panic; and the transport handle is never
\* closed a second time.
CloseTerminal ==
    /\ devLastOp.op \notin {"none", "NewDevice"} =>
          (devLastOp.closedBefore =>
              (devLastOp.sent = <<>> /\ devLastOp.err # "panic"))
    /\ handleCloses <= 1

\* Whether the first pending packet is a well-formed init packet.
ValidInit ==
    /\ Len(incoming) >= 1
    /\ Len(incoming[1]) >= 7
    /\ SubSeq(incoming[1], 1, 4) = <<255, 0, 0, 0>>
    /\ incoming[1][5] = 193

\* The number of reads readFrame made.
ReadsMade == Len(incoming) - Len(rdRest)

\* C21: readFrame returns exactly the declared number of payload bytes.
\* For a valid init packet declaring length L, a readFrame that returns
\* without error returns exactly L bytes, no filler beyond L and never
\* fewer than L, also when a read returned fewer than 64 bytes.
ReadExactLength ==
    (rdPc = "read" /\ ValidInit /\ rdRet.err = "nil") =>
        Len(rdRet.data) = incoming[1][6] * 256 + incoming[1][7]

\* C22: readFrame fails and returns no payload whenever the first packet
\* has fewer than 7 bytes, its first four bytes are not ff 00 00 00 or its
\* fifth byte is not the HWW command byte, and whenever a continuation
\* read returns fewer than the 5 bytes of the continuation header.
FramingErrors ==
    (rdPc = "read" /\ Len(incoming) >= 1) =>
        /\ ~ValidInit => (rdRet.err # "nil" /\ rdRet.data = <<>> /\ ReadsMade = 1)
        /\ (\E k \in 2..ReadsMade : Len(incoming[k]) < 5) =>
              (rdRet.err # "nil" /\ rdRet.data = <<>>)

\* C22 witness: after a well-formed first packet declaring more than it
\* holds, the continuation read returned four bytes.
FramingErrorsWitness ==
    /\ rdPc = "read"
    /\ ValidInit
    /\ Len(incoming[1]) = 64
    /\ ReadsMade = 2
    /\ Len(incoming[2]) = 4
    /\ rdRet.err = "expected minimum read length of 7"
    /\ rdRet.data = <<>>

HasErrorObject(r) == "error" \in DOMAIN r /\ r["error"].t = "object"

WellFormedError(e) ==
    /\ "message" \in DOMAIN e /\ e["message"].t = "string"
    /\ "code" \in DOMAIN e /\ e["code"].t = "number"

\* The mapping of a parsed reply r onto what a call returned: the device
\* error of a well-formed error object, an "Unexpected reply" error for
\* another error object, the reply itself without an error object.
MappedOnto(r, ret) ==
    IF HasErrorObject(r)
    THEN IF WellFormedError(r["error"].v)
         THEN /\ ret.err = "device"
              /\ ret.message = r["error"].v["message"].v
              /\ ret.code = r["error"].v["code"].v
              /\ ~ret.hasReply
         ELSE ret.err = "Unexpected reply" /\ ~ret.hasReply
    ELSE ret.err = "nil" /\ ret.hasReply /\ ret.reply = r

PlainReturned == rpPc = "returned" /\ rpOp = "SendPlain"
EncryptReturned == rpPc = "returned" /\ rpOp = "SendEncrypt"
ReplyParsed == rpWire.err = "nil" /\ rpWire.text.json

\* C23: whenever the reply of SendPlain's round trip parses, an "error"
\* object in it with a string message and a numeric code is returned as a
\* device error with exactly that code and message and without a reply map,
\* an "error" object lacking either is returned as an "Unexpected reply"
\* error that is no device error, and a reply without an "error" object is
\* returned unchanged with no error.
PlainErrorMapping ==
    (PlainReturned /\ ReplyParsed) => MappedOnto(rpWire.text.v, rpRet)

PlainErrorMappingWitness ==
    /\ PlainReturned /\ ReplyParsed
    /\ HasErrorObject(rpWire.text.v)
    /\ rpRet.err = "device" /\ rpRet.code = 101 /\ rpRet.message = "m101"

\* What SendEncrypt returns for the parsed reply r of its round trip: r is
\* mapped as by SendPlain; a reply that passed and has a string ciphertext
\* is decrypted with the secret of the call's password, a failure being an
\* error, and the decrypted payload is parsed and mapped; a reply without
\* a string ciphertext is the result.
EncryptResult(r) ==
    IF HasErrorObject(r) THEN MappedOnto(r, rpRet)
    ELSE IF hasCipherText(r)
    THEN IF r["ciphertext"].secret # Secret(rpPassword)
         THEN rpRet.err = "Failed to decrypt reply" /\ ~rpRet.hasReply
         ELSE IF ~r["ciphertext"].text.json
         THEN rpRet.err \notin {"nil", "device"} /\ ~rpRet.hasReply
         ELSE MappedOnto(r["ciphertext"].text.v, rpRet)
    ELSE rpRet.err = "nil" /\ rpRet.hasReply /\ rpRet.reply = r

\* C24: every call of SendEncrypt makes exactly one round trip,
\* and returns the decrypted ciphertext field of the reply, or the plain
\* reply when it has none; a decryption failure is an error without a
\* second round trip; an "error" object in the decrypted payload is a
\* device error.
EncryptExactlyOneRoundTrip ==
    EncryptReturned =>
        /\ rpRoundTrips = 1
        /\ ReplyParsed => EncryptResult(rpWire.text.v)

\* What the code does: a call of SendEncrypt makes at most one round trip:
\* none, returning an error, when the command cannot be logged or
\* encrypted, and exactly one otherwise, whose reply is mapped as
\* EncryptResult says.
EncryptContract ==
    EncryptReturned =>
        IF rpMsgOk /\ rpEncryptOk
        THEN /\ rpRoundTrips = 1
             /\ ReplyParsed => EncryptResult(rpWire.text.v)
        ELSE /\ rpRoundTrips = 0
             /\ rpRet.err \notin {"nil", "device"} /\ ~rpRet.hasReply

EncryptContractWitness ==
    /\ EncryptReturned /\ ReplyParsed /\ rpRoundTrips = 1
    /\ hasCipherText(rpWire.text.v)
    /\ rpWire.text.v["ciphertext"].secret = Secret(rpPassword)
    /\ rpRet.err = "device" /\ rpRet.code = 101

\* C31: NewAddressChain yields no chain for a private key and none for a
\* key of another network than the one passed: the call panics; a call
\* that succeeds yields an empty chain whose key is xpub.Child(chainIndex),
\* and the addresses derived afterwards are the children of that key.
NewChainContract ==
    nacPc \in {"constructed", "ensured"} =>
        /\ (nacXpub.private \/ nacXpub.net # nacNet) =>
              (nacRet.panic # "none" /\ nacRet.chain = NoChain)
        /\ nacRet.panic = "none" =>
              /\ nacRet.chain.xpub = Child(nacXpub, nacChainIndex).key
              /\ Child(nacXpub, nacChainIndex).err = "nil"
              /\ nacPc = "constructed" => nacRet.chain.addresses = <<>>
              /\ \A i \in 1..Len(nacRet.chain.addresses) :
                    nacRet.chain.addresses[i].publicKey.path
                        = nacXpub.path \o <<nacChainIndex, i - 1>>

NewChainContractWitness ==
    /\ nacPc = "ensured"
    /\ nacRet.panic = "none"
    /\ Len(nacRet.chain.addresses) = MaxGapLimit
    /\ nacXpub.path = <<44>> /\ nacChainIndex = 1

\* C32: an operation of the session other than NewDevice sends each of its
\* requests once: the i-th request sent is the i-th request of the
\* operation, and a request answered with the still-initializing error is
\* the last one sent, the operation returning that error.
InitializingNotRetried ==
    \A i \in 1..Len(soSent) :
        /\ soSent[i].k = i
        /\ soSent[i].outcome = "initializing" =>
              /\ i = Len(soSent)
              /\ soPc = "returned"
              /\ soErr = "initializing"

InitializingNotRetriedWitness ==
    /\ soOp = "Sign"
    /\ soPc = "returned"
    /\ Len(soSent) = 3
    /\ soSent[3].outcome = "initializing"
    /\ soErr = "initializing"

\* C33: every packet sendFrame writes is 64 bytes long; the first is an
\* init packet (channel identifier, command byte) whose 16-bit big-endian
\* length field is the length of the message; the k-th continuation packet
\* (k = 0, 1, 2, ...) carries the channel identifier and the sequence byte
\* k, so the sequence bytes increase strictly; and the bytes after the
\* payload are filler.
PacketFormat ==
    \A i \in 1..Len(pkWire) :
        LET p == pkWire[i] IN
        /\ Len(p.header) + p.payload + p.filler = usbReportSize
        /\ SubSeq(p.header, 1, 4) = hwwCID
        /\ i = 1 => /\ Len(p.header) = 7
                    /\ p.header[5] = hwwCMD
                    /\ p.header[6] * 256 + p.header[7] = pkLen
        /\ i > 1 => /\ Len(p.header) = 5
                    /\ p.header[5] = i - 2
                    /\ i > 2 => pkWire[i - 1].header[5] < p.header[5]
        /\ p.filler > 0 => i = Len(pkWire)

\* C34: concurrent operations on one session are serialized as a whole:
\* the round trips of one thread's operation are contiguous on the
\* transport, no request of another thread lying between two of them.
OperationsSerialized ==
    \A a, c \in DOMAIN ocWire :
        (a < c /\ ocWire[a].thr = ocWire[c].thr) => ocWire[c - 1].thr = ocWire[c].thr

\* The index of the highest used address, -1 when none is used.
HighestUsedIndex ==
    IF \E i \in 1..Len(addresses) : addresses[i].used
    THEN addresses[CHOOSE i \in 1..Len(addresses) :
                      /\ addresses[i].used
                      /\ \A j \in 1..Len(addresses) : addresses[j].used => j <= i].index
    ELSE -1

\* C35: in every state reached from a new chain by EnsureAddresses and by
\* marking addresses used, at most gapLimit addresses at the tail are
\* unused and the chain is at most gapLimit longer than up to its highest
\* used address: EnsureAddresses never derives past the gap limit.
WithinGapLimit ==
    chainLastOp # "none" =>
        /\ unusedTailCountOf(addresses) <= gapLimit
        /\ Len(addresses) <= (HighestUsedIndex + 1) + gapLimit

WithinGapLimitWitness ==
    /\ chainLastOp = "EnsureAddresses"
    /\ HighestUsedIndex >= gapLimit
    /\ Len(addresses) = (HighestUsedIndex + 1) + gapLimit
    /\ Len(ensureRet) = 1

\* C36: whenever Sign returns without error, it returns as many signatures
\* as hashes were passed, and the signature at position j is the one the
\* device returned for the j-th pair: the entry at the pair's position in
\* the reply to the pair's batch.
SignOnePerPair ==
    signPc = "done" =>
        /\ signRet.err = "nil"
        /\ Len(signRet.sigs) = Len(signatureHashes)
        /\ \A j \in 1..Len(signatureHashes) :
              LET k == (j - 1) \div signatureBatchSize + 1
                  t == j - BatchLo(k) + 1
              IN /\ t <= Len(signReplies[k].sign)
                 /\ signRet.sigs[j] = sigOf(signReplies[k].sign[t])

\* C37: if NewDevice, not in bootloader mode, returns a device, then some
\* ping was answered without error and the device's initialized flag is
\* whether that answer was ping = "password"; it returns no device when
\* every ping failed with the still-initializing error.
DeviceMeansPingAnswered ==
    (ndPc = "returned" /\ ndRet.device /\ ~ndBootloader) =>
        /\ ndRet.err = "nil"
        /\ \E k \in 1..Len(ndPings) :
              /\ ndPings[k] \in {"password", "false"}
              /\ initialized <=> ndPings[k] = "password"

\* C38: whenever Login, SetPassword, CreateWallet, RestoreBackup or Reset
\* returns an error, the session's password, seeded and initialized fields,
\* and with them Status(), are what they were before the call.
UnchangedOnError ==
    (/\ devLastOp.op \in {"Login", "SetPassword", "CreateWallet", "RestoreBackup",
                          "Reset"}
     /\ devLastOp.err # "nil") =>
        /\ Fields = devLastOp.beforeF
        /\ Status = devLastOp.before

\* C39: the channel lock is released on every exit of a round trip (a
\* reply, a write error, a read or framing error, a reply that cannot be
\* parsed or holds an error, the panic of SendBootloader): a thread that
\* left its call does not hold the mutex, and a thread waiting for the
\* mutex eventually acquires it.
LockReleased ==
    /\ [](\A t \in Threads :
             thrPc[t] \in {"done", "failed", "panicked"} => mutex # t)
    /\ \A t \in Threads : (thrPc[t] = "lock") ~> (mutex = t)

\* C39 witness: a thread holds the mutex after the other's SendBootloader
\* panicked on a message that was too long.
LockReleasedWitness ==
    /\ thrPc[1] = "panicked"
    /\ mutex = 2
    /\ thrPc[2] = "read"

\* C40: statusChanged is fired when the status changes.  An operation that
\* changed Status() fired the statusChanged event; a failed operation (one
\* that returned an error) and an aborted one (a Reset or RestoreBackup
\* that returned false without an error) fired no event; Status() differs
\* from what it was before the operation only when an event was fired.
StatusChangedFired ==
    devLastOp.op \notin {"none", "NewDevice"} =>
        /\ Status # devLastOp.before => devLastOp.events >= 1
        /\ devLastOp.err # "nil" => devLastOp.events = 0
        /\ (/\ devLastOp.op \in {"Reset", "RestoreBackup"}
            /\ devLastOp.err = "nil"
            /\ ~devLastOp.ret) => devLastOp.events = 0

\* What the code does: as StatusChangedFired, with the Login whose
\* bootloader re-lock failed set apart; it has fired the event.
StatusChangedFiredButLogin ==
    devLastOp.op \notin {"none", "NewDevice"} =>
        /\ Status # devLastOp.before => devLastOp.events >= 1
        /\ (devLastOp.err # "nil" /\ devLastOp.sent # <<"device", "bootloader">>)
              => devLastOp.events = 0
        /\ devLastOp.sent = <<"device", "bootloader">> => devLastOp.events = 1
        /\ (/\ devLastOp.op \in {"Reset", "RestoreBackup"}
            /\ devLastOp.err = "nil"
            /\ ~devLastOp.ret) => devLastOp.events = 0

====
